---- MODULE Spec2Model ----
(***************************************************************************)
(* A model of repoagent: the GraphQL issue-fetching layer                  *)
(* (src/src/graphql_client.py, src/src/github_utils.py), the response      *)
(* codec (src/src/response_models.py), the event handlers (src/src/main.py)*)
(* and the configuration object (src/src/config.py).                       *)
(*                                                                         *)
(*   SpecExecute   one call of GraphQLExecutor.execute, one action per     *)
(*                 iteration of its retry loop, the outcome of the query   *)
(*                 chosen by the environment.                              *)
(*   SpecPaginate  get_github_issue and paginate_issue_comments over an    *)
(*                 issue whose comments are served in pages.  A call of    *)
(*                 execute is seen there by its two results: it returns    *)
(*                 error-free data or it ends the process.                 *)
(*   SpecTerminate the same calls under weak fairness of their steps.      *)
(*   SpecLive      the same calls on an issue whose comments are deleted   *)
(*                 between the queries.                                    *)
(*   SpecFetch     one call of graphql_fetch_issue on any response.        *)
(*   SpecCodec     to_markdown, from_markdown and from_text on records.    *)
(*   SpecStory     UserStoryRefactored.from_markdown on line sequences.    *)
(*   SpecMain      one run of main: dispatch and the event handlers.       *)
(*   SpecApply     an issue thread that receives /apply commands.          *)
(*   SpecConfig    attribute assignments on a built Config object.         *)
(***************************************************************************)
EXTENDS Integers, Sequences, FiniteSets, TLC

VARIABLES
    ex_pc,            \* execute: "idle", "attempting", "returned", "exited"
    attempt,          \* execute: the loop index of the next query attempt
    hist,             \* execute: the outcomes of the query attempts made, in order
    trace,            \* execute: the queries and sleeps performed, in order
    result,           \* execute: the data returned to the caller, or NoData
    issue_comments,   \* the server: the issue's comments, oldest first
    deleted,          \* the server: the positions of the comments deleted since
    caller,           \* who called: "get_github_issue" or "direct"
    pc,               \* position in get_github_issue / paginate_issue_comments
    initial_snapshot, \* the snapshot as handed to paginate_issue_comments (NoSnapshot
                      \* while it has not been called)
    snapshot,         \* the IssueSnapshot being built
    found_disabled,   \* paginate_issue_comments: local found_disabled
    found_ai_comment, \* paginate_issue_comments: local found_ai_comment
    page_num,         \* paginate_issue_comments: local page_num
    after_cursor,     \* paginate_issue_comments: local after_cursor
    requests,         \* the `after` cursors paginate_issue_comments has queried with
    c_pc,             \* codec: "start", "encoded", "decoded" or "parsed"
    rec,              \* codec: the UserStoryEvalResponse under study
    text,             \* codec: the model output handed to from_text
    md,               \* codec: the markdown to_markdown produced
    dec,              \* codec: the record from_markdown or from_text produced
    m_pc,             \* main: the step the invocation is at
    event_name,       \* main: config.github.event_name
    issue_kind,       \* main: "snapshot" (IssueSnapshot) or "pygithub" (Issue)
    held,             \* main: the comments of the issue object the handler gets
    completions,      \* main: the number of run_completion calls made
    comment_found,    \* main: the issue holds the comment issue_comment_id
    comment_body,     \* main: the kind of body the triggering comment has
    fields,           \* main: the non-empty edits the evaluation comment asks for
    posted,           \* main: the comments created on the issue, in order
    applied,          \* main: the edits made to the issue
    failed,           \* main: the steps that returned False
    exit_code,        \* main: the exit status of the process
    f_pc,             \* fetch: "start", "returned" or "exited"
    f_after,          \* fetch: the after argument of graphql_fetch_issue
    f_data,           \* fetch: the response execute returned
    f_result,         \* fetch: the (snapshot, page_info) the call returned
    thread,           \* apply: the bodies of the comments of the issue, in order
    edits,            \* apply: the update_github_issue calls made, in order
    cfg_built,        \* config: the attributes of the Config object when __init__ ended
    cfg,              \* config: the attributes of the Config object now
    cfg_log           \* config: the attribute assignments made since, in order

exec_vars == <<ex_pc, attempt, hist, trace, result>>

pag_vars == <<issue_comments, deleted, caller, pc, initial_snapshot, snapshot, found_disabled,
              found_ai_comment, page_num, after_cursor, requests>>

codec_vars == <<c_pc, rec, text, md, dec>>

fetch_vars == <<f_pc, f_after, f_data, f_result>>

apply_vars == <<thread, edits>>

config_vars == <<cfg_built, cfg, cfg_log>>

main_vars == <<m_pc, event_name, issue_kind, held, completions,
               comment_found, comment_body, fields, posted, applied, failed,
               exit_code>>

vars == <<ex_pc, attempt, hist, trace, result, issue_comments, deleted, caller, pc,
          initial_snapshot, snapshot, found_disabled, found_ai_comment, page_num,
          after_cursor, requests, c_pc, rec, text, md, dec, m_pc, event_name,
          issue_kind, held, completions, comment_found, comment_body,
          fields, posted, applied, failed, exit_code, f_pc, f_after, f_data,
          f_result, thread, edits, cfg_built, cfg, cfg_log>>

(***************************************************************************)
(* Bounds of the model.                                                    *)
(***************************************************************************)
\* the longest errors list a GraphQL response carries
MaxErrors == 3

\* the most comments an issue holds
MaxComments == 5

\* the comments the server puts on one page (stands for page_size = 100)
PageSize == 2

\* the most comments deleted while one call of get_github_issue runs
MaxDeletes == 3

(***************************************************************************)
(* GraphQLExecutor                                                         *)
(***************************************************************************)
\* self._max_retries
MaxRetries == 3

\* self._base_backoff, in seconds
BaseBackoff == 2

\* the statuses a GithubException is raised with here; -1 is a network error
Statuses == {-1, 401, 403, 404, 500, 502, 503, 504, 505}

AuthStatuses == {401, 403}

TransientStatuses == {502, 503, 504, -1}

\* the "type" of one entry of a response's errors list; "" when it has none
ErrorTypes == {"RATE_LIMITED", "INTERNAL", "NOT_FOUND", ""}

RetryableErrorTypes == {"RATE_LIMITED", "INTERNAL"}

\* what a response's data key holds (opaque to execute)
Payloads == {"d1", "d2"}

NoData ==
    [kind |-> "none", status |-> 0, hasErrors |-> FALSE, errors |-> <<>>,
     payload |-> "none"]

RECURSIVE Pow2(_)
Pow2(n) == IF n = 0 THEN 1 ELSE 2 * Pow2(n - 1)

\* mutant: the backoff does not grow with the attempt
Backoff_Constant(a) == BaseBackoff

\* backoff = self._base_backoff * (2**attempt)
Backoff(a) == BaseBackoff * Pow2(a)

\* the errors lists of length 0..MaxErrors
ErrorLists == UNION {[1..n -> ErrorTypes] : n \in 0..MaxErrors}

\* a response of graphql_query: a dict with or without the "errors" key
Response(hasErrors, errors, payload) ==
    [kind |-> "response", status |-> 0, hasErrors |-> hasErrors, errors |-> errors,
     payload |-> payload]

\* graphql_query raising GithubException(status)
GithubExc(status) ==
    [kind |-> "github", status |-> status, hasErrors |-> FALSE, errors |-> <<>>,
     payload |-> "none"]

\* graphql_query (or the handling of its response) raising any other Exception
UnexpectedExc ==
    [kind |-> "exception", status |-> 0, hasErrors |-> FALSE, errors |-> <<>>,
     payload |-> "none"]

Responses ==
    {Response(FALSE, <<>>, p) : p \in Payloads}
        \cup {Response(TRUE, e, p) : e \in ErrorLists, p \in Payloads}

QueryEvent == [ev |-> "query", secs |-> 0]

SleepEvent(s) == [ev |-> "sleep", secs |-> s]

\* what one iteration of the retry loop decides: the sleeps it performs and
\* whether the loop continues, execute returns, or the process exits
Step(next, sleeps) == [next |-> next, sleeps |-> sleeps]

\* the for-loop over data["errors"]: `continue` resumes this inner loop, so the
\* scan goes on to the next error after a sleep; falling off the list is fatal
RECURSIVE ScanErrors(_, _, _, _)
ScanErrors(a, errors, i, slept) ==
    IF i > Len(errors)
    THEN Step("exit", slept)
    ELSE IF errors[i] \in RetryableErrorTypes
         THEN IF a < MaxRetries - 1
              THEN ScanErrors(a, errors, i + 1, Append(slept, Backoff(a)))
              ELSE Step("exit", slept)
         ELSE ScanErrors(a, errors, i + 1, slept)

\* mutant: the "errors" key is not looked at
OnResponse_IgnoresErrors(a, o) == Step("return", <<>>)

\* the try-body after graphql_query returned
OnResponse(a, o) ==
    IF o.hasErrors THEN ScanErrors(a, o.errors, 1, <<>>) ELSE Step("return", <<>>)

\* mutant: 403 is taken for a rate limit and retried like a transient status
OnGithubException_Retry403(a, status) ==
    IF status = 401
    THEN Step("exit", <<>>)
    ELSE IF status \in TransientStatuses \cup {403}
         THEN IF a < MaxRetries - 1
              THEN Step("continue", <<Backoff(a)>>)
              ELSE Step("exit", <<>>)
         ELSE Step("exit", <<>>)

\* mutant: every 5xx status is retried
OnGithubException_All5xx(a, status) ==
    IF status \in AuthStatuses
    THEN Step("exit", <<>>)
    ELSE IF status >= 500 \/ status = -1
         THEN IF a < MaxRetries - 1
              THEN Step("continue", <<Backoff(a)>>)
              ELSE Step("exit", <<>>)
         ELSE Step("exit", <<>>)

\* except GithubException as e
OnGithubException(a, status) ==
    IF status \in AuthStatuses
    THEN Step("exit", <<>>)
    ELSE IF status \in TransientStatuses
         THEN IF a < MaxRetries - 1
              THEN Step("continue", <<Backoff(a)>>)
              ELSE Step("exit", <<>>)
         ELSE Step("exit", <<>>)

\* except Exception as e
OnUnexpected(a) ==
    IF a < 1 THEN Step("continue", <<BaseBackoff>>) ELSE Step("exit", <<>>)

SleepEvents(sleeps) == [i \in 1..Len(sleeps) |-> SleepEvent(sleeps[i])]

\* one iteration of `for attempt in range(self._max_retries)` with outcome o
\* decided as st; running off the end of the range is the final sys.exit(1)
Iterate(o, st) ==
    /\ ex_pc = "attempting"
    /\ hist' = Append(hist, o)
    /\ trace' = trace \o <<QueryEvent>> \o SleepEvents(st.sleeps)
    /\ IF st.next = "return"
       THEN ex_pc' = "returned" /\ result' = o /\ attempt' = attempt
       ELSE IF st.next = "continue" /\ attempt + 1 < MaxRetries
            THEN ex_pc' = "attempting" /\ result' = result /\ attempt' = attempt + 1
            ELSE ex_pc' = "exited" /\ result' = result /\ attempt' = attempt
    /\ UNCHANGED pag_vars
    /\ UNCHANGED codec_vars
    /\ UNCHANGED main_vars
    /\ UNCHANGED fetch_vars
    /\ UNCHANGED apply_vars
    /\ UNCHANGED config_vars

\* execute is entered
ExecuteCall ==
    /\ ex_pc = "idle"
    /\ ex_pc' = "attempting"
    /\ attempt' = 0
    /\ UNCHANGED <<hist, trace, result>>
    /\ UNCHANGED pag_vars
    /\ UNCHANGED codec_vars
    /\ UNCHANGED main_vars
    /\ UNCHANGED fetch_vars
    /\ UNCHANGED apply_vars
    /\ UNCHANGED config_vars

AttemptResponse ==
    \E o \in Responses : Iterate(o, OnResponse(attempt, o))

AttemptGithubException ==
    \E s \in Statuses : Iterate(GithubExc(s), OnGithubException(attempt, s))

AttemptUnexpected ==
    Iterate(UnexpectedExc, OnUnexpected(attempt))

ExecInit ==
    /\ ex_pc = "idle"
    /\ attempt = 0
    /\ hist = <<>>
    /\ trace = <<>>
    /\ result = NoData

\* derived views of one execute call
Sleeps == SelectSeq(trace, LAMBDA e : e.ev = "sleep")

SleepSecs == [i \in 1..Len(Sleeps) |-> Sleeps[i].secs]

Queries == Len(SelectSeq(trace, LAMBDA e : e.ev = "query"))

IsTransient(o) == o.kind = "github" /\ o.status \in TransientStatuses

IsOk(o) == o.kind = "response" /\ ~o.hasErrors

(***************************************************************************)
(* The server: an issue's comments, served PageSize at a time              *)
(***************************************************************************)
\* what a comment body holds of the two markers:
\*   "disabled"        DISABLED_MARKER, letter for letter
\*   "disabled_upper"  DISABLED_MARKER in another letter case
\*   "ai"              'AI-enhanced Evaluation', letter for letter
\*   "ai_lower"        'ai-enhanced evaluation'
\*   "both"            DISABLED_MARKER and 'AI-enhanced Evaluation'
Bodies == {"plain", "disabled", "disabled_upper", "ai", "ai_lower", "both"}

\* disabled_marker in comment.body
ContainsDisabled(body) == body \in {"disabled", "both"}

\* mutant: the AI marker is matched letter for letter
ContainsAiMarker_CaseSensitive(body) == body \in {"ai", "both"}

\* ai_comment_marker.lower() in comment.body.lower()
ContainsAiMarker(body) == body \in {"ai", "ai_lower", "both"}

\* after=None, and the endCursor of a page without nodes
NoCursor == 0

Min(a, b) == IF a < b THEN a ELSE b

\* the comments connection for comments(first: $pageSize, after: $after): the
\* cursor of a comment is its position in the issue, and a page holds the
\* first PageSize comments after the cursor that have not been deleted
ServerPage(after) ==
    LET live == SelectSeq([i \in 1..Len(issue_comments) |-> i],
                          LAMBDA i : i > after /\ i \notin deleted)
        n == Min(PageSize, Len(live))
    IN  [nodes |-> [k \in 1..n |-> [db_id |-> live[k], body |-> issue_comments[live[k]]]],
         hasNextPage |-> Len(live) > PageSize,
         endCursor |-> IF n = 0 THEN NoCursor ELSE live[n]]

(***************************************************************************)
(* graphql_fetch_issue                                                     *)
(***************************************************************************)
\* how one call of graphql_fetch_issue ends: execute returned data holding the
\* issue, data without the repository, data without the issue, or execute
\* ended the process
FetchOutcomes == {"data", "no_repository", "no_issue", "execute_exit"}

NoSnapshot == [comments |-> <<>>, fetched_pages |-> 0, had_truncated |-> FALSE]

\* d.get(key, default) on a dict
Get(d, key, default) == IF key \in DOMAIN d THEN d[key] ELSE default

\* a comments connection without pageInfo: page_info is {}
NoPageInfo == [k \in {} |-> FALSE]

\* a null entry of comments.nodes
NullNode == [null |-> TRUE, db_id |-> 0, body |-> "plain"]

\* a comment of comments.nodes
Node(db_id, body) == [null |-> FALSE, db_id |-> db_id, body |-> body]

\* mutant: every call counts as the fetch of a first page
ParseIssue_AlwaysFirstPage(after, data) ==
    IF ~data.has_repository \/ ~data.has_issue
    THEN [exits |-> TRUE, snapshot |-> NoSnapshot, page_info |-> NoPageInfo]
    ELSE LET nodes == SelectSeq(data.nodes, LAMBDA n : ~n.null)
         IN  [exits |-> FALSE,
              snapshot |->
                  [comments |-> [i \in 1..Len(nodes) |->
                                    [db_id |-> nodes[i].db_id, body |-> nodes[i].body]],
                   fetched_pages |-> 1,
                   had_truncated |-> Get(data.page_info, "hasNextPage", FALSE)],
              page_info |-> data.page_info]

\* mutant: a response without the issue is parsed like one that holds it
ParseIssue_IgnoresMissingIssue(after, data) ==
    IF ~data.has_repository
    THEN [exits |-> TRUE, snapshot |-> NoSnapshot, page_info |-> NoPageInfo]
    ELSE LET nodes == SelectSeq(data.nodes, LAMBDA n : ~n.null)
         IN  [exits |-> FALSE,
              snapshot |->
                  [comments |-> [i \in 1..Len(nodes) |->
                                    [db_id |-> nodes[i].db_id, body |-> nodes[i].body]],
                   fetched_pages |-> IF after = NoCursor THEN 1 ELSE 0,
                   had_truncated |-> Get(data.page_info, "hasNextPage", FALSE)],
              page_info |-> data.page_info]

\* graphql_fetch_issue from the response of execute on: the process ends
\* when the repository or the issue is missing; else the snapshot holds the
\* non-null nodes, and page_info is passed on as received
ParseIssue(after, data) ==
    IF ~data.has_repository \/ ~data.has_issue
    THEN [exits |-> TRUE, snapshot |-> NoSnapshot, page_info |-> NoPageInfo]
    ELSE LET nodes == SelectSeq(data.nodes, LAMBDA n : ~n.null)
         IN  [exits |-> FALSE,
              snapshot |->
                  [comments |-> [i \in 1..Len(nodes) |->
                                    [db_id |-> nodes[i].db_id, body |-> nodes[i].body]],
                   fetched_pages |-> IF after = NoCursor THEN 1 ELSE 0,
                   had_truncated |-> Get(data.page_info, "hasNextPage", FALSE)],
              page_info |-> data.page_info]

\* the response of the server for cursor `after` that holds the issue
ServerData(after) ==
    LET page == ServerPage(after)
    IN  [has_repository |-> TRUE,
         has_issue |-> TRUE,
         nodes |-> [i \in 1..Len(page.nodes) |->
                       Node(page.nodes[i].db_id, page.nodes[i].body)],
         page_info |-> [hasNextPage |-> page.hasNextPage, endCursor |-> page.endCursor]]

\* the (snapshot, page_info) graphql_fetch_issue returns for cursor `after`
GraphqlFetchIssue(after) ==
    LET got == ParseIssue(after, ServerData(after))
    IN  [snapshot |-> got.snapshot, page_info |-> got.page_info]

(***************************************************************************)
(* paginate_issue_comments and its callers                                 *)
(***************************************************************************)
\* mutant: the early return for a complete snapshot is missing
Truncated_Always(snap) == TRUE

\* the object passed as initial_snapshot, as it is now: `snapshot =
\* initial_snapshot` binds a second name to the same IssueSnapshot (a dataclass
\* that is not frozen), so the loop's extend and assignments act on it; the
\* variable initial_snapshot keeps its value at the time of the call
InitialSnapshotObject == snapshot

\* snapshot.had_truncated, as paginate_issue_comments tests it on entry
Truncated(snap) == snap.had_truncated

\* any(disabled_marker in comment.body for comment in comments)
AnyDisabled(comments) == \E i \in 1..Len(comments) : ContainsDisabled(comments[i].body)

\* any(ai_comment_marker.lower() in comment.body.lower() for comment in comments)
AnyAiComment(comments) == \E i \in 1..Len(comments) : ContainsAiMarker(comments[i].body)

\* get_github_comment on a snapshot: the comment with database id comment_id,
\* or the exception raised when the snapshot holds none
GetGithubComment(comments, comment_id) ==
    LET at == {i \in 1..Len(comments) : comments[i].db_id = comment_id}
    IN  IF at = {} THEN [raises |-> TRUE, db_id |-> 0, body |-> "plain"]
        ELSE LET i == CHOOSE x \in at : \A y \in at : x <= y
             IN  [raises |-> FALSE, db_id |-> comments[i].db_id,
                  body |-> comments[i].body]

\* get_ai_enhanced_comment on a snapshot: the last comment held whose body
\* holds the AI marker, None without one
NewestAiComment(comments) ==
    LET at == {i \in 1..Len(comments) : ContainsAiMarker(comments[i].body)}
    IN  IF at = {} THEN [none |-> TRUE, db_id |-> 0, body |-> "plain"]
        ELSE LET i == CHOOSE x \in at : \A y \in at : x >= y
             IN  [none |-> FALSE, db_id |-> comments[i].db_id,
                  body |-> comments[i].body]

\* mutant: the loop stops as soon as either marker has been found
LoopCondition_StopsOnEither(cursor, fd, fai) == cursor # NoCursor /\ ~fd /\ ~fai

\* the while condition: after_cursor and (not found_disabled or not found_ai_comment)
LoopCondition(cursor, fd, fai) == cursor # NoCursor /\ (~fd \/ ~fai)

\* mutant: the page just fetched replaces the comments held so far
AppendPage_Replaces(snap, next, num) ==
    [comments |-> next.snapshot.comments,
     fetched_pages |-> num,
     had_truncated |-> next.page_info.hasNextPage]

\* mutant: fetched_pages is not set to the number of the page just fetched
AppendPage_KeepsPageCount(snap, next, num) ==
    [comments |-> snap.comments \o next.snapshot.comments,
     fetched_pages |-> snap.fetched_pages,
     had_truncated |-> next.page_info.hasNextPage]

\* mutant: had_truncated is not refreshed from the page just fetched
AppendPage_KeepsTruncated(snap, next, num) ==
    [comments |-> snap.comments \o next.snapshot.comments,
     fetched_pages |-> num,
     had_truncated |-> snap.had_truncated]

\* the loop body's update of the snapshot with the page just fetched
AppendPage(snap, next, num) ==
    [comments |-> snap.comments \o next.snapshot.comments,
     fetched_pages |-> num,
     had_truncated |-> next.page_info.hasNextPage]

\* the process ends inside graphql_fetch_issue
FetchExits ==
    /\ pc' = "exited"
    /\ UNCHANGED <<snapshot, found_disabled, found_ai_comment, page_num, after_cursor>>

\* a caller fetches the first page; get_github_issue paginates only a truncated
\* snapshot, a direct caller hands whatever it fetched to paginate_issue_comments
FetchInitial(c, r) ==
    /\ pc = "start"
    /\ caller' = c
    /\ IF r = "data"
       THEN LET got == GraphqlFetchIssue(NoCursor)
            IN  /\ snapshot' = got.snapshot
                /\ IF c = "direct" \/ got.snapshot.had_truncated
                   THEN pc' = "paginate" /\ initial_snapshot' = got.snapshot
                   ELSE pc' = "returned" /\ UNCHANGED initial_snapshot
       ELSE /\ pc' = "exited"
            /\ UNCHANGED <<snapshot, initial_snapshot>>
    /\ UNCHANGED <<issue_comments, deleted, found_disabled, found_ai_comment, page_num,
                   after_cursor, requests>>
    /\ UNCHANGED exec_vars
    /\ UNCHANGED codec_vars
    /\ UNCHANGED main_vars
    /\ UNCHANGED fetch_vars
    /\ UNCHANGED apply_vars
    /\ UNCHANGED config_vars

GetGithubIssue == \E r \in FetchOutcomes : FetchInitial("get_github_issue", r)

DirectCall == \E r \in FetchOutcomes : FetchInitial("direct", r)

\* if not snapshot.had_truncated: return snapshot
PaginateNotTruncated ==
    /\ pc = "paginate"
    /\ ~Truncated(snapshot)
    /\ pc' = "returned"
    /\ UNCHANGED <<issue_comments, deleted, caller, initial_snapshot, snapshot, found_disabled,
                   found_ai_comment, page_num, after_cursor, requests>>
    /\ UNCHANGED exec_vars
    /\ UNCHANGED codec_vars
    /\ UNCHANGED main_vars
    /\ UNCHANGED fetch_vars
    /\ UNCHANGED apply_vars
    /\ UNCHANGED config_vars

\* if found_disabled and found_ai_comment: return snapshot
PaginateBothFound ==
    /\ pc = "paginate"
    /\ Truncated(snapshot)
    /\ AnyDisabled(snapshot.comments) /\ AnyAiComment(snapshot.comments)
    /\ found_disabled' = TRUE
    /\ found_ai_comment' = TRUE
    /\ pc' = "returned"
    /\ UNCHANGED <<issue_comments, deleted, caller, initial_snapshot, snapshot, page_num,
                   after_cursor, requests>>
    /\ UNCHANGED exec_vars
    /\ UNCHANGED codec_vars
    /\ UNCHANGED main_vars
    /\ UNCHANGED fetch_vars
    /\ UNCHANGED apply_vars
    /\ UNCHANGED config_vars

\* page_num = 2; the first page is fetched again for its endCursor; then the
\* while condition is evaluated for the first time
PaginateFetchCursor(r) ==
    /\ pc = "paginate"
    /\ Truncated(snapshot)
    /\ ~(AnyDisabled(snapshot.comments) /\ AnyAiComment(snapshot.comments))
    /\ requests' = Append(requests, NoCursor)
    /\ IF r = "data"
       THEN LET got == GraphqlFetchIssue(NoCursor)
                fd == AnyDisabled(snapshot.comments)
                fai == AnyAiComment(snapshot.comments)
            IN  /\ found_disabled' = fd
                /\ found_ai_comment' = fai
                /\ page_num' = 2
                /\ after_cursor' = got.page_info.endCursor
                /\ pc' = IF LoopCondition(got.page_info.endCursor, fd, fai)
                         THEN "loop" ELSE "returned"
                /\ UNCHANGED snapshot
       ELSE FetchExits
    /\ UNCHANGED <<issue_comments, deleted, caller, initial_snapshot>>
    /\ UNCHANGED exec_vars
    /\ UNCHANGED codec_vars
    /\ UNCHANGED main_vars
    /\ UNCHANGED fetch_vars
    /\ UNCHANGED apply_vars
    /\ UNCHANGED config_vars

PaginateStart == \E r \in FetchOutcomes : PaginateFetchCursor(r)

\* mutant: the break on a page without a next page is missing
PaginateLoopBody_NoLastPageBreak(r) ==
    /\ pc = "loop"
    /\ requests' = Append(requests, after_cursor)
    /\ IF r = "data"
       THEN LET next == GraphqlFetchIssue(after_cursor)
                fd == found_disabled \/ AnyDisabled(next.snapshot.comments)
                fai == found_ai_comment \/ AnyAiComment(next.snapshot.comments)
            IN  /\ snapshot' = AppendPage(snapshot, next, page_num)
                /\ found_disabled' = fd
                /\ found_ai_comment' = fai
                /\ IF fd /\ fai
                   THEN pc' = "returned" /\ UNCHANGED <<after_cursor, page_num>>
                   ELSE /\ after_cursor' = next.page_info.endCursor
                        /\ page_num' = page_num + 1
                        /\ pc' = IF LoopCondition(next.page_info.endCursor, fd, fai)
                                 THEN "loop" ELSE "returned"
       ELSE FetchExits
    /\ UNCHANGED <<issue_comments, deleted, caller, initial_snapshot>>
    /\ UNCHANGED exec_vars
    /\ UNCHANGED codec_vars
    /\ UNCHANGED main_vars
    /\ UNCHANGED fetch_vars
    /\ UNCHANGED apply_vars
    /\ UNCHANGED config_vars

\* one iteration of the while loop, up to the next evaluation of its condition
PaginateLoopBody(r) ==
    /\ pc = "loop"
    /\ requests' = Append(requests, after_cursor)
    /\ IF r = "data"
       THEN LET next == GraphqlFetchIssue(after_cursor)
                fd == found_disabled \/ AnyDisabled(next.snapshot.comments)
                fai == found_ai_comment \/ AnyAiComment(next.snapshot.comments)
            IN  /\ snapshot' = AppendPage(snapshot, next, page_num)
                /\ found_disabled' = fd
                /\ found_ai_comment' = fai
                /\ IF (fd /\ fai) \/ ~next.page_info.hasNextPage
                   THEN pc' = "returned" /\ UNCHANGED <<after_cursor, page_num>>
                   ELSE /\ after_cursor' = next.page_info.endCursor
                        /\ page_num' = page_num + 1
                        /\ pc' = IF LoopCondition(next.page_info.endCursor, fd, fai)
                                 THEN "loop" ELSE "returned"
       ELSE FetchExits
    /\ UNCHANGED <<issue_comments, deleted, caller, initial_snapshot>>
    /\ UNCHANGED exec_vars
    /\ UNCHANGED codec_vars
    /\ UNCHANGED main_vars
    /\ UNCHANGED fetch_vars
    /\ UNCHANGED apply_vars
    /\ UNCHANGED config_vars

PaginateLoop == \E r \in FetchOutcomes : PaginateLoopBody(r)

\* the environment: a comment of the issue is deleted on the server between
\* two queries of a running call (after the caller's first-page fetch at
\* github_utils.py:87, before or between the paginator's own queries)
DeleteComment ==
    /\ pc \in {"paginate", "loop"}
    /\ Cardinality(deleted) < MaxDeletes
    /\ \E i \in 1..Len(issue_comments) :
           /\ i \notin deleted
           /\ deleted' = deleted \cup {i}
    /\ UNCHANGED <<issue_comments, caller, pc, initial_snapshot, snapshot,
                   found_disabled, found_ai_comment, page_num, after_cursor,
                   requests>>
    /\ UNCHANGED exec_vars
    /\ UNCHANGED codec_vars
    /\ UNCHANGED main_vars
    /\ UNCHANGED fetch_vars
    /\ UNCHANGED apply_vars
    /\ UNCHANGED config_vars

\* the issues of at most MaxComments comments
Issues == UNION {[1..n -> Bodies] : n \in 0..MaxComments}

PagIdle ==
    /\ deleted = {}
    /\ caller = "none"
    /\ pc = "start"
    /\ initial_snapshot = NoSnapshot
    /\ snapshot = NoSnapshot
    /\ found_disabled = FALSE
    /\ found_ai_comment = FALSE
    /\ page_num = 0
    /\ after_cursor = NoCursor
    /\ requests = <<>>

(***************************************************************************)
(* Strings of the response codec (src/src/response_models.py).  A string   *)
(* is a sequence of one-character strings; the three glyphs the codec      *)
(* writes are the single characters "ROBOT", "CHECK" and "CROSS".          *)
(***************************************************************************)
UpperToLower ==
    ("A" :> "a") @@
    ("B" :> "b") @@
    ("C" :> "c") @@
    ("D" :> "d") @@
    ("E" :> "e") @@
    ("F" :> "f") @@
    ("G" :> "g") @@
    ("H" :> "h") @@
    ("I" :> "i") @@
    ("J" :> "j") @@
    ("K" :> "k") @@
    ("L" :> "l") @@
    ("M" :> "m") @@
    ("N" :> "n") @@
    ("O" :> "o") @@
    ("P" :> "p") @@
    ("Q" :> "q") @@
    ("R" :> "r") @@
    ("S" :> "s") @@
    ("T" :> "t") @@
    ("U" :> "u") @@
    ("V" :> "v") @@
    ("W" :> "w") @@
    ("X" :> "x") @@
    ("Y" :> "y") @@
    ("Z" :> "z")

\* str.lower(), one character
LowerChar(c) == IF c \in DOMAIN UpperToLower THEN UpperToLower[c] ELSE c

\* str.lower()
Lower(s) == [i \in 1..Len(s) |-> LowerChar(s[i])]

Whitespace == {" ", "\n", "\t"}

MinOf(S) == CHOOSE x \in S : \A y \in S : x <= y

MaxOf(S) == CHOOSE x \in S : \A y \in S : x >= y

\* str.strip()
Strip(s) ==
    LET keep == {i \in 1..Len(s) : s[i] \notin Whitespace}
    IN  IF keep = {} THEN <<>> ELSE SubSeq(s, MinOf(keep), MaxOf(keep))

\* str.lstrip(chars)
LStrip(s, chars) ==
    LET keep == {i \in 1..Len(s) : s[i] \notin chars}
    IN  IF keep = {} THEN <<>> ELSE SubSeq(s, MinOf(keep), Len(s))

\* str.startswith(prefix)
StartsWith(s, prefix) ==
    /\ Len(s) >= Len(prefix)
    /\ SubSeq(s, 1, Len(prefix)) = prefix

\* needle in s
Contains(s, needle) ==
    \E i \in 1..(Len(s) - Len(needle) + 1) :
        SubSeq(s, i, i + Len(needle) - 1) = needle

\* s.split(sep): the pieces of s between the occurrences of the character sep
Split(s, sep) ==
    LET at == {i \in 1..Len(s) : s[i] = sep}
        n == Cardinality(at)
        cut(k) == IF k = 0 THEN 0
                  ELSE IF k = n + 1 THEN Len(s) + 1
                  ELSE CHOOSE x \in at : Cardinality({y \in at : y < x}) = k - 1
    IN  [k \in 1..(n + 1) |-> SubSeq(s, cut(k - 1) + 1, cut(k) - 1)]

\* s.split(sep, 1)[-1]: what follows the first sep, or s when there is none
AfterFirst(s, sep) ==
    LET at == {i \in 1..Len(s) : s[i] = sep}
    IN  IF at = {} THEN s ELSE SubSeq(s, MinOf(at) + 1, Len(s))

\* s.split(sep)[-1]: what follows the last sep, or s when there is none
AfterLast(s, sep) ==
    LET at == {i \in 1..Len(s) : s[i] = sep}
    IN  IF at = {} THEN s ELSE SubSeq(s, MaxOf(at) + 1, Len(s))

\* str.splitlines(): the lines of s, without a final empty piece
SplitLines(s) ==
    LET pieces == Split(s, "\n")
    IN  IF pieces[Len(pieces)] = <<>> THEN SubSeq(pieces, 1, Len(pieces) - 1)
        ELSE pieces

RECURSIVE Join(_, _)
\* sep.join(parts), joining the two halves of parts
Join(parts, sep) ==
    IF Len(parts) = 0 THEN <<>>
    ELSE IF Len(parts) = 1 THEN parts[1]
    ELSE LET half == Len(parts) \div 2
         IN  Join(SubSeq(parts, 1, half), sep) \o sep
                 \o Join(SubSeq(parts, half + 1, Len(parts)), sep)

IsNonEmpty(x) == x # <<>>

\* [x for x in parts if x]
NonEmpty(parts) == SelectSeq(parts, IsNonEmpty)

\* [l.strip() for l in s.split(",") if l.strip()]
SplitLabels(s) ==
    LET pieces == Split(s, ",")
    IN  NonEmpty([k \in 1..Len(pieces) |-> Strip(pieces[k])])

\* the branch an if/elif chain takes: the position of the first condition
\* that holds, or one past the last when none does
FirstTrue(tests) ==
    MinOf({k \in 1..Len(tests) : tests[k]} \cup {Len(tests) + 1})

\* the default of paginate_issue_comments' ai_comment_marker, and the literal
\* of get_ai_enhanced_comment
AiCommentMarker ==
    <<"A","I","-","e","n","h","a","n","c","e","d"," ","E","v","a","l","u",
      "a","t","i","o","n">>

\* the marker test on a comment body given as text:
\* ai_comment_marker.lower() in comment.body.lower()
IsAiEnhancedComment(body) == Contains(Lower(body), Lower(AiCommentMarker))

(***************************************************************************)
(* The records of the response codec.  Python's None is the value whose    *)
(* field none is TRUE.                                                     *)
(***************************************************************************)
NL == <<"\n">>

\* a Python list
ListOf(items) == [none |-> FALSE, items |-> items]

\* None where a list is expected
NoneList == [none |-> TRUE, items |-> <<>>]

\* `if x:` on an Optional[List[str]]
ListTruthy(l) == ~l.none /\ l.items # <<>>

\* None where a UserStoryRefactored is expected
NoneStory ==
    [none |-> TRUE, title |-> <<>>, description |-> <<>>,
     acceptance_criteria |-> NoneList]

\* UserStoryRefactored.__init__
UserStoryRefactored(title, description, acceptance_criteria) ==
    [none |-> FALSE, title |-> title, description |-> description,
     acceptance_criteria |-> acceptance_criteria]

\* UserStoryRefactored(): every parameter at its default
DefaultStory == UserStoryRefactored(<<>>, <<>>, NoneList)

\* UserStoryRefactored.from_dict over a dict that holds the keys d.keys
FromDict(d) ==
    UserStoryRefactored(
        IF "title" \in d.keys THEN d.title ELSE <<>>,
        IF "description" \in d.keys THEN d.description ELSE <<>>,
        IF "acceptance_criteria" \in d.keys
            THEN ListOf(d.acceptance_criteria) ELSE ListOf(<<>>))

\* mutant: a missing story stays None
StoryOrDefault_KeepsNone(x) == x

\* `x or UserStoryRefactored()`: an object without __bool__ is truthy
StoryOrDefault(x) == IF x.none THEN DefaultStory ELSE x

\* UserStoryEvalResponse.__init__ over its arguments a
UserStoryEvalResponse(a) ==
    [summary |-> a.summary,
     title_complete |-> a.title_complete,
     description_complete |-> a.description_complete,
     acceptance_criteria_complete |-> a.acceptance_criteria_complete,
     importance |-> a.importance,
     acceptance_criteria_evaluation |-> a.acceptance_criteria_evaluation,
     labels |-> a.labels,
     ready_to_work |-> a.ready_to_work,
     base_story_not_clear |-> a.base_story_not_clear,
     refactored |-> StoryOrDefault(a.refactored)]

(***************************************************************************)
(* to_markdown                                                             *)
(***************************************************************************)
\* mutant: the heading does not name the AI evaluation
Heading_Plain ==
    <<"#","#","#"," ","E","v","a","l","u","a","t","i","o","n">>

Heading ==
    <<"#","#","#"," ","ROBOT"," ","*","*","A","I","-","e","n","h","a","n",
      "c","e","d"," ","E","v","a","l","u","a","t","i","o","n","*","*">>

UnclearNote ==
    <<"\n","*","*","CROSS"," ","R","e","f","a","c","t","o","r","e","d"," ",
      "S","t","o","r","y"," ","c","o","u","l","d"," ","n","o","t"," ","b",
      "e"," ","p","r","o","v","i","d","e","d"," ","b","e","c","a","u","s",
      "e"," ","t","h","e"," ","o","r","i","g","i","n","a","l"," ","s","t",
      "o","r","y"," ","i","s"," ","u","n","c","l","e","a","r"," ","o","r",
      " ","l","a","c","k","s"," ","m","e","a","n","i","n","g","f","u","l",
      " ","v","a","l","u","e","."," ","P","l","e","a","s","e"," ","r","e",
      "w","r","i","t","e"," ","t","h","e"," ","t","i","t","l","e"," ","a",
      "n","d"," ","d","e","s","c","r","i","p","t","i","o","n"," ","t","o",
      " ","c","l","e","a","r","l","y"," ","e","x","p","l","a","i","n"," ",
      "t","h","e"," ","s","t","o","r","y","'","s"," ","p","u","r","p","o",
      "s","e"," ","a","n","d"," ","v","a","l","u","e",".","*","*">>

RefactoredHeading ==
    <<"\n","#","#","#"," ","R","e","f","a","c","t","o","r","e","d"," ","S",
      "t","o","r","y">>

ApplyInstruction ==
    <<"\n"," ","R","e","p","l","y"," ","\"","/","a","p","p","l","y","\"",
      " ","t","o"," ","a","p","p","l","y"," ","t","h","e","s","e"," ","u",
      "p","d","a","t","e","s",".","\n">>

SummaryKey ==
    <<"*","*","S","u","m","m","a","r","y","*","*",":">>

CompletenessKey ==
    <<"*","*","C","o","m","p","l","e","t","e","n","e","s","s","*","*",":">>

TitleFlagKey ==
    <<"-"," ","T","i","t","l","e",":">>

DescriptionFlagKey ==
    <<"-"," ","D","e","s","c","r","i","p","t","i","o","n",":">>

CriteriaFlagKey ==
    <<"-"," ","A","c","c","e","p","t","a","n","c","e"," ","C","r","i","t",
      "e","r","i","a",":">>

ImportanceKey ==
    <<"*","*","I","m","p","o","r","t","a","n","c","e","*","*",":">>

CriteriaEvaluationKey ==
    <<"*","*","A","c","c","e","p","t","a","n","c","e"," ","C","r","i","t",
      "e","r","i","a"," ","E","v","a","l","u","a","t","i","o","n","*","*",
      ":">>

SuggestedLabelsKey ==
    <<"*","*","S","u","g","g","e","s","t","e","d"," ","L","a","b","e","l",
      "s","*","*",":">>

ReadyToWorkKey ==
    <<"*","*","R","e","a","d","y"," ","t","o"," ","W","o","r","k","*","*",
      ":">>

StoryTitleKey ==
    <<"*","*","T","i","t","l","e","*","*",":">>

StoryDescriptionKey ==
    <<"*","*","D","e","s","c","r","i","p","t","i","o","n","*","*",":">>

StoryCriteriaKey ==
    <<"*","*","A","c","c","e","p","t","a","n","c","e"," ","C","r","i","t",
      "e","r","i","a","*","*",":">>

\* yn_emoji
YnEmoji(val) == IF val THEN <<"CHECK">> ELSE <<"CROSS">>

\* UserStoryRefactored.body_markdown
BodyMarkdown(s) ==
    LET d == IF s.description # <<>>
                 THEN <<StoryDescriptionKey \o <<" ">> \o s.description \o NL>>
                 ELSE <<>>
        c == IF ListTruthy(s.acceptance_criteria)
                 THEN <<StoryCriteriaKey>> \o
                      [i \in 1..Len(s.acceptance_criteria.items) |->
                          <<"-", " ">> \o s.acceptance_criteria.items[i]]
                 ELSE <<>>
    IN  Join(d \o c, NL)

\* UserStoryRefactored.to_markdown
StoryToMarkdown(s) ==
    LET t == IF s.title # <<>>
                 THEN <<StoryTitleKey \o <<" ">> \o s.title \o NL>>
                 ELSE <<>>
        body == BodyMarkdown(s)
        b == IF body # <<>> THEN <<body>> ELSE <<>>
    IN  Join(t \o b, NL)

\* mutant: the section is emitted for an unclear story too
EmitsSection_IgnoresUnclear(r) ==
    /\ ~r.refactored.none
    /\ ~r.ready_to_work

\* `self.refactored and (not self.ready_to_work and not
\* self.base_story_not_clear)`: the object is truthy whatever it holds
EmitsSection(r) ==
    /\ ~r.refactored.none
    /\ ~r.ready_to_work /\ ~r.base_story_not_clear

\* `not self.ready_to_work and self.base_story_not_clear`
EmitsNote(r) == ~r.ready_to_work /\ r.base_story_not_clear

\* UserStoryEvalResponse.to_markdown
ToMarkdown(r) ==
    LET lines ==
            << Heading,
               SummaryKey \o <<" ">> \o r.summary,
               CompletenessKey,
               <<" ">> \o TitleFlagKey \o <<" ">>
                   \o YnEmoji(r.title_complete) \o NL,
               <<" ">> \o DescriptionFlagKey \o <<" ">>
                   \o YnEmoji(r.description_complete) \o NL,
               <<" ">> \o CriteriaFlagKey \o <<" ">>
                   \o YnEmoji(r.acceptance_criteria_complete) \o NL \o NL,
               ImportanceKey \o <<" ">> \o r.importance \o NL \o NL,
               CriteriaEvaluationKey \o <<" ">>
                   \o r.acceptance_criteria_evaluation \o NL \o NL,
               SuggestedLabelsKey \o <<" ">>
                   \o Join(r.labels, <<",", " ">>) \o NL \o NL,
               ReadyToWorkKey \o <<" ">> \o YnEmoji(r.ready_to_work) \o NL >>
        note == IF EmitsNote(r) THEN <<UnclearNote>> ELSE <<>>
        section == IF EmitsSection(r)
                       THEN << RefactoredHeading,
                               StoryToMarkdown(r.refactored),
                               ApplyInstruction >>
                       ELSE <<>>
    IN  Join(lines \o note \o section, NL)

(***************************************************************************)
(* from_markdown                                                           *)
(***************************************************************************)
StoryTitleKeyLower ==
    <<"*","*","t","i","t","l","e","*","*",":">>

StoryDescriptionKeyLower ==
    <<"*","*","d","e","s","c","r","i","p","t","i","o","n","*","*",":">>

StoryCriteriaKeyLower ==
    <<"*","*","a","c","c","e","p","t","a","n","c","e"," ","c","r","i","t",
      "e","r","i","a","*","*",":">>

BaseStoryNotClearKey ==
    <<"B","a","s","e"," ","S","t","o","r","y"," ","N","o","t"," ","C","l",
      "e","a","r",":">>

UnclearPhrase ==
    <<"c","o","u","l","d"," ","n","o","t"," ","b","e"," ","p","r","o","v",
      "i","d","e","d"," ","b","e","c","a","u","s","e"," ","t","h","e"," ",
      "o","r","i","g","i","n","a","l"," ","s","t","o","r","y"," ","i","s",
      " ","u","n","c","l","e","a","r">>

RefactoredStoryKey ==
    <<"#","#","#"," ","R","e","f","a","c","t","o","r","e","d"," ","S","t",
      "o","r","y">>

\* mutant: the story parser keeps the letter case of the line
StoryLine_KeepsCase(line) == Strip(line)

\* l = line.strip().lower()
StoryLine(line) == Lower(Strip(line))

\* one iteration of the loop of UserStoryRefactored.from_markdown
StoryStep(st, line) ==
    LET l == StoryLine(line)
        branch == FirstTrue(<<
            StartsWith(l, StoryTitleKeyLower),
            StartsWith(l, StoryDescriptionKeyLower),
            StartsWith(l, StoryCriteriaKeyLower),
            st.section = "acceptance_criteria" /\ StartsWith(l, <<"-">>),
            st.section = "acceptance_criteria" /\ ~StartsWith(l, <<"-">>) >>)
    IN  CASE branch = 1 -> [st EXCEPT !.title = Strip(AfterFirst(l, ":"))]
          [] branch = 2 -> [st EXCEPT !.description = Strip(AfterFirst(l, ":"))]
          [] branch = 3 -> [st EXCEPT !.section = "acceptance_criteria"]
          [] branch = 4 -> [st EXCEPT !.acceptance_criteria =
                               Append(@, Strip(LStrip(l, {"-", " "})))]
          [] branch = 5 -> [st EXCEPT !.section = "None"]
          [] OTHER -> st

RECURSIVE StoryScan(_, _, _, _)
\* the loop of UserStoryRefactored.from_markdown over lines[lo..hi]: over the first
\* half of the range, then over the second from the locals the first left
StoryScan(lines, lo, hi, st) ==
    IF lo > hi THEN st
    ELSE IF lo = hi THEN StoryStep(st, lines[lo])
    ELSE LET mid == (lo + hi) \div 2
             left == StoryScan(lines, lo, mid, st)
         IN  IF left = st THEN StoryScan(lines, mid + 1, hi, st)
             ELSE StoryScan(lines, mid + 1, hi, left)

\* UserStoryRefactored.from_markdown
StoryFromMarkdown(markdown) ==
    LET lines == SplitLines(markdown)
        st == StoryScan(lines, 1, Len(lines),
                  [title |-> <<>>, description |-> <<>>,
                   acceptance_criteria |-> <<>>, section |-> "None"])
    IN  UserStoryRefactored(st.title, st.description,
                            ListOf(st.acceptance_criteria))

\* emoji_to_bool
EmojiToBool(val) == Strip(val) = <<"CHECK">>

\* one iteration of the loop of UserStoryEvalResponse.from_markdown
MdStep(st, line) ==
    LET value == Strip(AfterFirst(line, ":"))
        branch == FirstTrue(<<
            StartsWith(line, SummaryKey),
            StartsWith(Strip(line), TitleFlagKey),
            StartsWith(Strip(line), DescriptionFlagKey),
            StartsWith(Strip(line), CriteriaFlagKey),
            StartsWith(line, ImportanceKey),
            StartsWith(line, CriteriaEvaluationKey),
            StartsWith(line, SuggestedLabelsKey),
            StartsWith(line, ReadyToWorkKey),
            Contains(line, BaseStoryNotClearKey),
            Contains(line, UnclearPhrase),
            StartsWith(Strip(line), RefactoredStoryKey),
            st.in_refactored >>)
    IN  CASE branch = 1 -> [st EXCEPT !.summary = value]
          [] branch = 2 -> [st EXCEPT !.title_complete = EmojiToBool(value)]
          [] branch = 3 -> [st EXCEPT !.description_complete = EmojiToBool(value)]
          [] branch = 4 ->
                [st EXCEPT !.acceptance_criteria_complete = EmojiToBool(value)]
          [] branch = 5 -> [st EXCEPT !.importance = value]
          [] branch = 6 -> [st EXCEPT !.acceptance_criteria_evaluation = value]
          [] branch = 7 ->
                [st EXCEPT !.labels = SplitLabels(AfterFirst(line, ":"))]
          [] branch = 8 -> [st EXCEPT !.ready_to_work = EmojiToBool(value)]
          [] branch = 9 -> [st EXCEPT !.base_story_not_clear = EmojiToBool(value)]
          [] branch = 10 -> [st EXCEPT !.base_story_not_clear = TRUE]
          [] branch = 11 -> [st EXCEPT !.in_refactored = TRUE]
          [] branch = 12 -> [st EXCEPT !.refactored_md = Append(@, line)]
          [] OTHER -> st

RECURSIVE MdScan(_, _, _, _)
\* the loop of UserStoryEvalResponse.from_markdown over lines[lo..hi]: over the first
\* half of the range, then over the second from the locals the first left
MdScan(lines, lo, hi, st) ==
    IF lo > hi THEN st
    ELSE IF lo = hi THEN MdStep(st, lines[lo])
    ELSE LET mid == (lo + hi) \div 2
             left == MdScan(lines, lo, mid, st)
         IN  IF left = st THEN MdScan(lines, mid + 1, hi, st)
             ELSE MdScan(lines, mid + 1, hi, left)

\* the locals of from_markdown and from_text before their loops
ParserDefaults ==
    [summary |-> <<>>,
     title_complete |-> FALSE,
     description_complete |-> FALSE,
     acceptance_criteria_complete |-> FALSE,
     importance |-> <<>>,
     acceptance_criteria_evaluation |-> <<>>,
     labels |-> <<>>,
     ready_to_work |-> FALSE,
     base_story_not_clear |-> FALSE]

\* UserStoryEvalResponse.from_markdown
FromMarkdown(markdown) ==
    LET lines == SplitLines(markdown)
        st == MdScan(lines, 1, Len(lines),
                  [summary |-> ParserDefaults.summary,
                   title_complete |-> ParserDefaults.title_complete,
                   description_complete |-> ParserDefaults.description_complete,
                   acceptance_criteria_complete |->
                       ParserDefaults.acceptance_criteria_complete,
                   importance |-> ParserDefaults.importance,
                   acceptance_criteria_evaluation |->
                       ParserDefaults.acceptance_criteria_evaluation,
                   labels |-> ParserDefaults.labels,
                   ready_to_work |-> ParserDefaults.ready_to_work,
                   base_story_not_clear |-> ParserDefaults.base_story_not_clear,
                   refactored_md |-> <<>>,
                   in_refactored |-> FALSE])
        refactored == IF st.refactored_md # <<>>
                          THEN StoryFromMarkdown(Join(st.refactored_md, NL))
                          ELSE NoneStory
    IN  UserStoryEvalResponse(
            [summary |-> st.summary,
             title_complete |-> st.title_complete,
             description_complete |-> st.description_complete,
             acceptance_criteria_complete |-> st.acceptance_criteria_complete,
             importance |-> st.importance,
             acceptance_criteria_evaluation |->
                 st.acceptance_criteria_evaluation,
             labels |-> st.labels,
             ready_to_work |-> st.ready_to_work,
             base_story_not_clear |-> st.base_story_not_clear,
             refactored |-> refactored])

(***************************************************************************)
(* from_text                                                               *)
(***************************************************************************)
TextSummaryKey ==
    <<"S","u","m","m","a","r","y",":">>

TextImportanceKey ==
    <<"I","m","p","o","r","t","a","n","c","e",":">>

TextCriteriaEvaluationKey ==
    <<"A","c","c","e","p","t","a","n","c","e"," ","C","r","i","t","e","r",
      "i","a"," ","E","v","a","l","u","a","t","i","o","n",":">>

TextLabelsKey ==
    <<"L","a","b","e","l","s",":">>

TextReadyToWorkKey ==
    <<"R","e","a","d","y"," ","t","o"," ","W","o","r","k",":">>

TextTitleKey ==
    <<"T","i","t","l","e",":">>

TextDescriptionKey ==
    <<"D","e","s","c","r","i","p","t","i","o","n",":">>

TextCriteriaKey ==
    <<"A","c","c","e","p","t","a","n","c","e"," ","C","r","i","t","e","r",
      "i","a",":">>

TrueWord ==
    <<"t","r","u","e">>

YesWord ==
    <<"y","e","s">>

\* extract_bool
ExtractBool(line) == Lower(Strip(AfterLast(Strip(line), ":"))) = TrueWord

\* extract_yesno
ExtractYesNo(line) == Lower(Strip(AfterLast(Strip(line), ":"))) = YesWord

\* the body of `elif section == "refactored":` in from_text, on the dict d
TextStoryStep(d, line) ==
    LET branch == FirstTrue(<<
            StartsWith(line, TextTitleKey),
            StartsWith(line, TextDescriptionKey),
            StartsWith(line, TextCriteriaKey),
            StartsWith(line, <<"-">>) >>)
    IN  CASE branch = 1 -> [d EXCEPT !.keys = @ \cup {"title"},
                                     !.title = Strip(AfterFirst(line, ":"))]
          [] branch = 2 -> [d EXCEPT !.keys = @ \cup {"description"},
                                     !.description = Strip(AfterFirst(line, ":"))]
          [] branch = 3 -> [d EXCEPT !.keys = @ \cup {"acceptance_criteria"},
                                     !.acceptance_criteria = <<>>]
          [] branch = 4 /\ "acceptance_criteria" \in d.keys ->
                [d EXCEPT !.acceptance_criteria =
                     Append(@, Strip(LStrip(line, {"-", " "})))]
          [] OTHER -> d

\* mutant: a line without a recognised key is kept as the summary
TextStep_KeepsLine(st, line) == [st EXCEPT !.summary = Strip(line)]

\* one iteration of the loop of UserStoryEvalResponse.from_text
TextStep(st, line) ==
    LET value == Strip(AfterFirst(line, ":"))
        branch == FirstTrue(<<
            StartsWith(line, TextSummaryKey),
            StartsWith(Strip(line), TitleFlagKey),
            StartsWith(Strip(line), DescriptionFlagKey),
            StartsWith(Strip(line), CriteriaFlagKey),
            StartsWith(line, TextImportanceKey),
            StartsWith(line, TextCriteriaEvaluationKey),
            StartsWith(line, TextLabelsKey),
            StartsWith(line, TextReadyToWorkKey),
            StartsWith(line, BaseStoryNotClearKey),
            StartsWith(line, RefactoredStoryKey),
            st.section = "refactored" >>)
    IN  CASE branch = 1 -> [st EXCEPT !.summary = value]
          [] branch = 2 -> [st EXCEPT !.title_complete = ExtractYesNo(line)]
          [] branch = 3 -> [st EXCEPT !.description_complete = ExtractYesNo(line)]
          [] branch = 4 ->
                [st EXCEPT !.acceptance_criteria_complete = ExtractYesNo(line)]
          [] branch = 5 -> [st EXCEPT !.importance = value]
          [] branch = 6 -> [st EXCEPT !.acceptance_criteria_evaluation = value]
          [] branch = 7 ->
                [st EXCEPT !.labels = SplitLabels(AfterFirst(line, ":"))]
          [] branch = 8 -> [st EXCEPT !.ready_to_work = ExtractBool(line)]
          [] branch = 9 -> [st EXCEPT !.base_story_not_clear = ExtractBool(line)]
          [] branch = 10 -> [st EXCEPT !.section = "refactored"]
          [] branch = 11 -> [st EXCEPT !.refactored_dict = TextStoryStep(@, line)]
          [] OTHER -> st

RECURSIVE TextScan(_, _, _, _)
\* the loop of UserStoryEvalResponse.from_text over lines[lo..hi]: over the first
\* half of the range, then over the second from the locals the first left
TextScan(lines, lo, hi, st) ==
    IF lo > hi THEN st
    ELSE IF lo = hi THEN TextStep(st, lines[lo])
    ELSE LET mid == (lo + hi) \div 2
             left == TextScan(lines, lo, mid, st)
         IN  IF left = st THEN TextScan(lines, mid + 1, hi, st)
             ELSE TextScan(lines, mid + 1, hi, left)

\* mutant: the section is dropped when either boolean is set
TextStory_Gated(st) ==
    IF st.ready_to_work \/ st.base_story_not_clear
        THEN FromDict([st.refactored_dict EXCEPT !.keys = {}])
        ELSE FromDict(st.refactored_dict)

\* UserStoryRefactored.from_dict(refactored_dict), the last argument of the
\* constructor call that ends from_text
TextStory(st) == FromDict(st.refactored_dict)

\* UserStoryEvalResponse.from_text: it has no raise statement and calls
\* nothing that raises on a string, so it returns a record for every text
FromText(t) ==
    LET lines == SplitLines(t)
        st == TextScan(lines, 1, Len(lines),
                  [summary |-> ParserDefaults.summary,
                   title_complete |-> ParserDefaults.title_complete,
                   description_complete |-> ParserDefaults.description_complete,
                   acceptance_criteria_complete |->
                       ParserDefaults.acceptance_criteria_complete,
                   importance |-> ParserDefaults.importance,
                   acceptance_criteria_evaluation |->
                       ParserDefaults.acceptance_criteria_evaluation,
                   labels |-> ParserDefaults.labels,
                   ready_to_work |-> ParserDefaults.ready_to_work,
                   base_story_not_clear |-> ParserDefaults.base_story_not_clear,
                   refactored_dict |->
                       [keys |-> {}, title |-> <<>>, description |-> <<>>,
                        acceptance_criteria |-> <<>>],
                   section |-> "None"])
    IN  UserStoryEvalResponse(
            [summary |-> st.summary,
             title_complete |-> st.title_complete,
             description_complete |-> st.description_complete,
             acceptance_criteria_complete |-> st.acceptance_criteria_complete,
             importance |-> st.importance,
             acceptance_criteria_evaluation |->
                 st.acceptance_criteria_evaluation,
             labels |-> st.labels,
             ready_to_work |-> st.ready_to_work,
             base_story_not_clear |-> st.base_story_not_clear,
             refactored |-> TextStory(st)])

(***************************************************************************)
(* The model output from_text is given: the response format the prompt     *)
(* asks for (src/src/prompts.py), with or without the refactored section,  *)
(* or a text that is not in that format.                                   *)
(***************************************************************************)
EvaluationLine ==
    <<"#","#","#"," ","E","v","a","l","u","a","t","i","o","n">>

TextCompletenessKey ==
    <<"C","o","m","p","l","e","t","e","n","e","s","s",":">>

NotJson ==
    <<"n","o","t"," ","j","s","o","n">>

YesNo(val) == IF val THEN <<"Y", "e", "s">> ELSE <<"N", "o">>

TrueFalse(val) ==
    IF val THEN <<"T", "r", "u", "e">> ELSE <<"F", "a", "l", "s", "e">>

\* the evaluation r written in the expected response format
ModelOutput(r, with_section) ==
    LET head ==
            << EvaluationLine,
               TextSummaryKey \o <<" ">> \o r.summary,
               TextCompletenessKey,
               <<" ">> \o TitleFlagKey \o <<" ">> \o YesNo(r.title_complete),
               <<" ">> \o DescriptionFlagKey \o <<" ">>
                   \o YesNo(r.description_complete),
               <<" ">> \o CriteriaFlagKey \o <<" ">>
                   \o YesNo(r.acceptance_criteria_complete),
               TextImportanceKey \o <<" ">> \o r.importance,
               TextCriteriaEvaluationKey \o <<" ">>
                   \o r.acceptance_criteria_evaluation,
               TextLabelsKey \o <<" ">> \o Join(r.labels, <<",", " ">>),
               TextReadyToWorkKey \o <<" ">> \o TrueFalse(r.ready_to_work),
               BaseStoryNotClearKey \o <<" ">>
                   \o TrueFalse(r.base_story_not_clear),
               <<>> >>
        section ==
            << RefactoredStoryKey,
               TextTitleKey \o <<" ">> \o r.refactored.title,
               TextDescriptionKey \o <<" ">> \o r.refactored.description,
               TextCriteriaKey >>
            \o [i \in 1..Len(r.refactored.acceptance_criteria.items) |->
                   <<"-", " ">> \o r.refactored.acceptance_criteria.items[i]]
    IN  Join(IF with_section THEN head \o section ELSE head, NL) \o NL

\* the texts from_text is applied to for the record r
Texts(r) == {ModelOutput(r, TRUE), ModelOutput(r, FALSE), NotJson}

(***************************************************************************)
(* The records the codec is exercised on                                   *)
(***************************************************************************)
MaxLabels == 2

MaxCriteria == 2

Summaries == { <<"F", "i", "x", ":", " ", "A", " ", "b">> }

\* the completeness flags: title, description, acceptance criteria
FlagTriples ==
    { <<TRUE, TRUE, TRUE>>, <<FALSE, FALSE, FALSE>>,
      <<TRUE, FALSE, TRUE>>, <<FALSE, TRUE, FALSE>> }

AllLabels == << <<"b", "u", "g">>, <<"u", "i", " ", "X">>, <<"d", "o", "c">>,
               <<"q", "a">> >>

\* the label lists: the first n of AllLabels
LabelLists == {SubSeq(AllLabels, 1, n) : n \in 0..MaxLabels}

Titles == { <<>>, <<"M", "y", " ", "T">> }

Descriptions == { <<>>, <<"D">> }

Criteria == { <<"A", "b">>, <<"T", "i", "t", "l", "e", ":", " ", "x">> }

RECURSIVE SeqsUpTo(_, _)
\* the sequences over S of length at most n
SeqsUpTo(S, n) ==
    IF n = 0 THEN {<<>>}
    ELSE LET shorter == SeqsUpTo(S, n - 1)
         IN  shorter \cup {Append(q, x) : q \in shorter, x \in S}

CriteriaLists == {NoneList} \cup {ListOf(q) : q \in SeqsUpTo(Criteria, MaxCriteria)}

Stories ==
    {UserStoryRefactored(t, d, c) :
        t \in Titles, d \in Descriptions, c \in CriteriaLists}

\* the records the constructor builds from the candidate arguments
Records ==
    {UserStoryEvalResponse(
         [summary |-> s,
          title_complete |-> f[1],
          description_complete |-> f[2],
          acceptance_criteria_complete |-> f[3],
          importance |-> <<"i">>,
          acceptance_criteria_evaluation |-> <<"e">>,
          labels |-> l,
          ready_to_work |-> rtw,
          base_story_not_clear |-> bsnc,
          refactored |-> story]) :
        s \in Summaries, f \in FlagTriples,
        l \in LabelLists, rtw \in BOOLEAN, bsnc \in BOOLEAN,
        story \in Stories \cup {NoneStory}}

\* no record decoded yet
NoRecord ==
    [summary |-> <<>>,
     title_complete |-> FALSE,
     description_complete |-> FALSE,
     acceptance_criteria_complete |-> FALSE,
     importance |-> <<>>,
     acceptance_criteria_evaluation |-> <<>>,
     labels |-> <<>>,
     ready_to_work |-> FALSE,
     base_story_not_clear |-> FALSE,
     refactored |-> NoneStory]

(***************************************************************************)
(* The codec's operations                                                  *)
(***************************************************************************)
CodecIdle ==
    /\ c_pc = "start"
    /\ rec = NoRecord
    /\ text = <<>>
    /\ md = <<>>
    /\ dec = NoRecord

CodecInit ==
    /\ c_pc = "start"
    /\ rec \in Records
    /\ text = <<>>
    /\ md = <<>>
    /\ dec = NoRecord

\* md = rec.to_markdown()
Encode ==
    /\ c_pc = "start"
    /\ md' = ToMarkdown(rec)
    /\ c_pc' = "encoded"
    /\ UNCHANGED <<rec, text, dec>>
    /\ UNCHANGED exec_vars
    /\ UNCHANGED pag_vars
    /\ UNCHANGED main_vars
    /\ UNCHANGED fetch_vars
    /\ UNCHANGED apply_vars
    /\ UNCHANGED config_vars

\* dec = UserStoryEvalResponse.from_markdown(md)
Decode ==
    /\ c_pc = "encoded"
    /\ dec' = FromMarkdown(md)
    /\ c_pc' = "decoded"
    /\ UNCHANGED <<rec, text, md>>
    /\ UNCHANGED exec_vars
    /\ UNCHANGED pag_vars
    /\ UNCHANGED main_vars
    /\ UNCHANGED fetch_vars
    /\ UNCHANGED apply_vars
    /\ UNCHANGED config_vars

\* dec = UserStoryEvalResponse.from_text(text)
ParseText ==
    /\ c_pc = "start"
    /\ \E t \in Texts(rec) :
        /\ text' = t
        /\ dec' = FromText(t)
    /\ c_pc' = "parsed"
    /\ UNCHANGED <<rec, md>>
    /\ UNCHANGED exec_vars
    /\ UNCHANGED pag_vars
    /\ UNCHANGED main_vars
    /\ UNCHANGED fetch_vars
    /\ UNCHANGED apply_vars
    /\ UNCHANGED config_vars

\* the most lines a story markdown of the model holds
MaxLines == 4

\* lines of a story markdown: the criteria header, a bullet, a blank line,
\* the two other headers, and other text
StoryLineKinds ==
    { StoryCriteriaKey,
      <<"-"," ","a">>,
      <<>>,
      StoryTitleKey \o <<" ","t">>,
      StoryDescriptionKey \o <<" ","d">>,
      <<"x"," ","y">> }

\* the markdown texts UserStoryRefactored.from_markdown is applied to
StoryMarkdowns ==
    {Join(ls, NL) : ls \in SeqsUpTo(StoryLineKinds, MaxLines) \ {<<>>}}

StoryInit ==
    /\ c_pc = "start"
    /\ rec = NoRecord
    /\ text = <<>>
    /\ md \in StoryMarkdowns
    /\ dec = NoRecord

\* dec = UserStoryRefactored.from_markdown(md)
DecodeStory ==
    /\ c_pc = "start"
    /\ dec' = StoryFromMarkdown(md)
    /\ c_pc' = "story_decoded"
    /\ UNCHANGED <<rec, text, md>>
    /\ UNCHANGED exec_vars
    /\ UNCHANGED pag_vars
    /\ UNCHANGED main_vars
    /\ UNCHANGED fetch_vars
    /\ UNCHANGED apply_vars
    /\ UNCHANGED config_vars

(***************************************************************************)
(* The event handlers of main.py                                           *)
(***************************************************************************)
Commands == {"/apply", "/review", "/usage", "/disable"}

\* the first line of the confirmation comment and the blank line after it
ConfirmationPrefix ==
    <<"CHECK"," ","A","p","p","l","i","e","d"," ","e","n","h","a","n","c",
      "e","m","e","n","t","s"," ","b","a","s","e","d"," ","o","n"," ","t",
      "h","e"," ","f","o","l","l","o","w","i","n","g"," ","c","o","m","m",
      "e","n","t",":","\n","\n">>

\* "\n".join([f"> {line}" for line in markdown.strip().splitlines()])
QuotedBody(markdown) ==
    LET lines == SplitLines(Strip(markdown))
    IN  Join([i \in 1..Len(lines) |-> <<">", " ">> \o lines[i]], NL)

\* the confirmation comment for the record decoded by /apply
ConfirmationComment(r) == ConfirmationPrefix \o QuotedBody(ToMarkdown(r))

\* the text of a command
CommandText(c) ==
    CASE c = "/apply" -> <<"/","a","p","p","l","y">>
      [] c = "/review" -> <<"/","r","e","v","i","e","w">>
      [] c = "/usage" -> <<"/","u","s","a","g","e">>
      [] c = "/disable" -> <<"/","d","i","s","a","b","l","e">>

\* the comment /usage posts: a heading and get_command_usage_markdown();
\* "BACKTICK" is the character that encloses inline code
UsageComment ==
    <<"#","#","#"," ","ROBOT"," ","A","v","a","i","l","a","b","l","e"," ",
      "C","o","m","m","a","n","d","s","\n","\n","|"," ","C","o","m","m","a",
      "n","d"," ","|"," ","D","e","s","c","r","i","p","t","i","o","n"," ",
      "|","\n","|","-","-","-","-","-","-","-","-","-","|","-","-","-","-",
      "-","-","-","-","-","-","-","-","-","|","\n","|"," ","BACKTICK","/","a","p",
      "p","l","y","BACKTICK"," ","|"," ","A","p","p","l","i","e","s"," ","t","h",
      "e"," ","A","I","-","e","n","h","a","n","c","e","d"," ","t","i","t",
      "l","e",","," ","b","o","d","y",","," ","a","n","d"," ","l","a","b",
      "e","l","s"," ","t","o"," ","t","h","e"," ","i","s","s","u","e",".",
      " ","|","\n","|"," ","BACKTICK","/","r","e","v","i","e","w","BACKTICK"," ","|"," ",
      "R","e","-","r","u","n","s"," ","t","h","e"," ","A","I"," ","r","e",
      "v","i","e","w"," ","a","n","d"," ","p","o","s","t","s"," ","a"," ",
      "f","r","e","s","h"," ","e","v","a","l","u","a","t","i","o","n"," ",
      "a","s"," ","a"," ","c","o","m","m","e","n","t","."," ","|","\n","|",
      " ","BACKTICK","/","u","s","a","g","e","BACKTICK"," ","|"," ","D","i","s","p","l",
      "a","y","s"," ","t","h","i","s"," ","l","i","s","t"," ","o","f"," ",
      "a","v","a","i","l","a","b","l","e"," ","c","o","m","m","a","n","d",
      "s","."," ","|","\n","|"," ","BACKTICK","/","d","i","s","a","b","l","e","BACKTICK",
      " ","|"," ","D","i","s","a","b","l","e","s"," ","t","h","e"," ","r",
      "e","p","o"," ","a","g","e","n","t"," ","f","o","r"," ","t","h","i",
      "s"," ","i","s","s","u","e",","," ","p","r","e","v","e","n","t","i",
      "n","g"," ","f","u","r","t","h","e","r"," ","a","u","t","o"," ","r",
      "e","v","i","e","w","s","."," ","|">>

\* the comment /disable posts; it ends with DISABLED_MARKER
DisableNotice ==
    <<"STOP"," ","A","u","t","o","m","a","t","i","c"," ","r","e","v","i",
      "e","w","s"," ","h","a","v","e"," ","b","e","e","n"," ","d","i","s",
      "a","b","l","e","d"," ","f","o","r"," ","t","h","i","s"," ","i","s",
      "s","u","e","."," ","C","o","m","m","e","n","t"," ","BACKTICK","/","r","e",
      "v","i","e","w","BACKTICK"," ","t","o"," ","m","a","n","u","a","l","l","y",
      " ","t","r","i","g","g","e","r"," ","f","u","t","u","r","e"," ","e",
      "v","a","l","u","a","t","i","o","n","s",".","<","!","-","-"," ","a",
      "g","e","n","t",":","d","i","s","a","b","l","e","d"," ","-","-",">">>

\* an evaluation whose comment carries the refactored story
SampleEvaluation ==
    UserStoryEvalResponse(
        [summary |-> <<"F", "i", "x">>,
         title_complete |-> TRUE,
         description_complete |-> FALSE,
         acceptance_criteria_complete |-> TRUE,
         importance |-> <<"i">>,
         acceptance_criteria_evaluation |-> <<"e">>,
         labels |-> <<<<"b", "u", "g">>>>,
         ready_to_work |-> FALSE,
         base_story_not_clear |-> FALSE,
         refactored |-> UserStoryRefactored(<<"M", "y", " ", "T">>, <<"D">>,
                                            ListOf(<<<<"A", "b">>>>))])

\* the comment bodies of triggering comments: nine written by users, and
\* the four kinds of comment the handlers post themselves
TriggerBody(k) ==
    CASE k = "apply" -> CommandText("/apply")
      [] k = "review" -> CommandText("/review")
      [] k = "usage" -> CommandText("/usage")
      [] k = "disable" -> CommandText("/disable")
      [] k = "apply_upper" -> <<" "," ","/","A","P","P","L","Y"," ","p","l","e","a","s","e","\n">>
      [] k = "disable_usage" -> <<"/","d","i","s","a","b","l","e"," ","a","n","d"," ","/","u","s","a",
      "g","e">>
      [] k = "usage_review" -> <<"/","u","s","a","g","e"," ","/","r","e","v","i","e","w">>
      [] k = "all" -> <<"/","d","i","s","a","b","l","e"," ","/","u","s","a","g","e"," ","/",
      "r","e","v","i","e","w"," ","/","a","p","p","l","y">>
      [] k = "none" -> <<"t","h","a","n","k","s">>
      [] k = "bot_evaluation" -> ToMarkdown(SampleEvaluation)
      [] k = "bot_confirmation" ->
             ConfirmationComment(FromMarkdown(ToMarkdown(SampleEvaluation)))
      [] k = "bot_usage" -> UsageComment
      [] k = "bot_disabled" -> DisableNotice

UserComments ==
    {"apply", "review", "usage", "disable", "apply_upper", "disable_usage",
     "usage_review", "all", "none"}

BotComments == {"bot_evaluation", "bot_confirmation", "bot_usage", "bot_disabled"}

\* comment_body = comment.body.strip().lower(), and the commands it holds
CommandsIn(body) ==
    {c \in Commands : Contains(Lower(Strip(body)), CommandText(c))}

\* the commands held by each kind of triggering comment
TriggerCommands == [k \in UserComments \cup BotComments |-> CommandsIn(TriggerBody(k))]

\* the commands the lower-cased body of the triggering comment holds
commands == TriggerCommands[comment_body]

EventNames == {"issues", "issue_comment"}

\* main hands its handlers the IssueSnapshot of get_github_issue; the
\* handlers and the helpers they call also take a PyGithub Issue
IssueKinds == {"snapshot", "pygithub"}

EditFields == {"title", "body", "labels"}

\* the order in which update_github_issue makes its edits
EditPos(f) ==
    CASE f = "title" -> 1
      [] f = "body" -> 2
      [] f = "labels" -> 3
      [] OTHER -> 4

\* mutant: the commands are tested in the opposite order
CommandOf_DisableFirst(cs) ==
    IF "/disable" \in cs THEN "/disable"
    ELSE IF "/usage" \in cs THEN "/usage"
    ELSE IF "/review" \in cs THEN "/review"
    ELSE IF "/apply" \in cs THEN "/apply"
    ELSE "none"

\* the branch handle_github_comment_event takes for a comment body that
\* holds the commands cs
CommandOf(cs) ==
    IF "/apply" \in cs THEN "/apply"
    ELSE IF "/review" \in cs THEN "/review"
    ELSE IF "/usage" \in cs THEN "/usage"
    ELSE IF "/disable" \in cs THEN "/disable"
    ELSE "none"

\* create_github_issue_comment(issue, comment): no token is passed, so a
\* snapshot raises ValueError inside the try; api_ok says whether the
\* PyGithub call went through.  The result is the function's return value.
CreateGithubIssueComment(kind, api_ok) ==
    IF kind = "snapshot" THEN FALSE ELSE api_ok

\* update_github_issue(issue, title, body, labels): the edits asked for are
\* made in order until the one named fail_at raises ("none": no edit raises)
UpdateGithubIssue(kind, asked, fail_at) ==
    IF kind = "snapshot"
    THEN [ok |-> FALSE, applied |-> {}]
    ELSE [ok |-> fail_at = "none",
          applied |-> {f \in asked : EditPos(f) < EditPos(fail_at)}]

\* build_user_story_eval_prompt takes (issue_title, issue_body); the call in
\* handle_github_issues_event passes a third argument
PromptCallMatchesSignature == FALSE

\* the most comments the issue object of a handler holds
MaxHeld == 2

\* the comment lists an issue object holds: database id and body
HeldComments ==
    UNION {{[i \in 1..n |-> [db_id |-> i, body |-> b[i]]] : b \in [1..n -> Bodies]} :
              n \in 0..MaxHeld}

\* is_agent_disabled(issue)
agent_disabled == AnyDisabled(held)

\* mutant: any held comment counts as the evaluation
ai_comment_held_AnyComment == held # <<>>

\* get_ai_enhanced_comment(issue) is not None
ai_comment_held == AnyAiComment(held)

MainIdle ==
    /\ m_pc = "main"
    /\ event_name = "issues"
    /\ issue_kind = "snapshot"
    /\ held = <<>>
    /\ completions = 0
    /\ comment_found = FALSE
    /\ comment_body = "none"
    /\ fields = {}
    /\ posted = <<>>
    /\ applied = {}
    /\ failed = {}
    /\ exit_code = 0

MainInit ==
    /\ m_pc = "main"
    /\ event_name \in EventNames
    /\ issue_kind \in IssueKinds
    /\ held \in HeldComments
    /\ completions = 0
    /\ comment_found \in BOOLEAN
    /\ comment_body \in UserComments \cup BotComments
    /\ fields \in SUBSET EditFields
    /\ posted = <<>>
    /\ applied = {}
    /\ failed = {}
    /\ exit_code = 0

main_inputs == <<event_name, issue_kind, held, comment_found, comment_body,
                 fields>>

\* the process ends with status code
Exit(code) ==
    /\ m_pc' = "exited"
    /\ exit_code' = code

\* one create_github_issue_comment call whose return value the caller drops
PostComment(kind) ==
    \E api_ok \in BOOLEAN :
        IF CreateGithubIssueComment(issue_kind, api_ok)
        THEN /\ posted' = Append(posted, kind)
             /\ failed' = failed
        ELSE /\ posted' = posted
             /\ failed' = failed \cup {"post"}

\* main: look the handler of the event up and await it
MainDispatch ==
    /\ m_pc = "main"
    /\ IF event_name = "issues"
       THEN m_pc' = "issues_event" /\ exit_code' = exit_code
       ELSE IF event_name = "issue_comment"
       THEN m_pc' = "comment_event" /\ exit_code' = exit_code
       ELSE Exit(0)
    /\ UNCHANGED <<posted, applied, failed, completions>>
    /\ UNCHANGED main_inputs
    /\ UNCHANGED exec_vars
    /\ UNCHANGED pag_vars
    /\ UNCHANGED codec_vars
    /\ UNCHANGED fetch_vars
    /\ UNCHANGED apply_vars
    /\ UNCHANGED config_vars

\* handle_github_issues_event(issue, kernel, existing_labels, manual), its
\* exceptions ending in main's except clause or in its own sys.exit(1)
HandleIssuesEvent(manual) ==
    IF ~manual /\ agent_disabled
    THEN Exit(0) /\ UNCHANGED <<posted, applied, failed, completions>>
    ELSE IF ~PromptCallMatchesSignature
    THEN Exit(1) /\ UNCHANGED <<posted, applied, failed, completions>>
    ELSE /\ completions' = completions + 1
         /\ \E completion_ok \in BOOLEAN :
                IF completion_ok
                THEN Exit(0) /\ PostComment("evaluation") /\ applied' = applied
                ELSE Exit(1) /\ UNCHANGED <<posted, applied, failed>>

\* the handler of an issues event
IssuesEvent ==
    /\ m_pc = "issues_event"
    /\ HandleIssuesEvent(FALSE)
    /\ UNCHANGED main_inputs
    /\ UNCHANGED exec_vars
    /\ UNCHANGED pag_vars
    /\ UNCHANGED codec_vars
    /\ UNCHANGED fetch_vars
    /\ UNCHANGED apply_vars
    /\ UNCHANGED config_vars

\* handle_github_comment_event: fetch the triggering comment and pick the
\* branch of its command; a comment that is not found raises
CommentEvent ==
    /\ m_pc = "comment_event"
    /\ IF ~comment_found
       THEN Exit(1)
       ELSE IF CommandOf(commands) = "none"
       THEN Exit(0)
       ELSE m_pc' = CommandOf(commands) /\ exit_code' = exit_code
    /\ UNCHANGED <<posted, applied, failed, completions>>
    /\ UNCHANGED main_inputs
    /\ UNCHANGED exec_vars
    /\ UNCHANGED pag_vars
    /\ UNCHANGED codec_vars
    /\ UNCHANGED fetch_vars
    /\ UNCHANGED apply_vars
    /\ UNCHANGED config_vars

\* /apply: find the evaluation comment; without one the handler returns
ApplyLookup ==
    /\ m_pc = "/apply"
    /\ IF ai_comment_held
       THEN m_pc' = "update" /\ exit_code' = exit_code
       ELSE Exit(0)
    /\ UNCHANGED <<posted, applied, failed, completions>>
    /\ UNCHANGED main_inputs
    /\ UNCHANGED exec_vars
    /\ UNCHANGED pag_vars
    /\ UNCHANGED codec_vars
    /\ UNCHANGED fetch_vars
    /\ UNCHANGED apply_vars
    /\ UNCHANGED config_vars

\* /apply: update_github_issue with the decoded title, body and labels
ApplyUpdate ==
    /\ m_pc = "update"
    /\ \E fail_at \in {"none"} \cup fields :
        LET r == UpdateGithubIssue(issue_kind, fields, fail_at)
        IN  /\ applied' = r.applied
            /\ failed' = IF r.ok THEN failed ELSE failed \cup {"apply"}
    /\ m_pc' = "confirm"
    /\ UNCHANGED <<posted, exit_code, completions>>
    /\ UNCHANGED main_inputs
    /\ UNCHANGED exec_vars
    /\ UNCHANGED pag_vars
    /\ UNCHANGED codec_vars
    /\ UNCHANGED fetch_vars
    /\ UNCHANGED apply_vars
    /\ UNCHANGED config_vars

\* /apply: post the confirmation comment and return
ApplyConfirm ==
    /\ m_pc = "confirm"
    /\ PostComment("confirmation")
    /\ Exit(0)
    /\ UNCHANGED <<applied, completions>>
    /\ UNCHANGED main_inputs
    /\ UNCHANGED exec_vars
    /\ UNCHANGED pag_vars
    /\ UNCHANGED codec_vars
    /\ UNCHANGED fetch_vars
    /\ UNCHANGED apply_vars
    /\ UNCHANGED config_vars

\* /review: the issues handler as a manual trigger
ReviewCommand ==
    /\ m_pc = "/review"
    /\ HandleIssuesEvent(TRUE)
    /\ UNCHANGED main_inputs
    /\ UNCHANGED exec_vars
    /\ UNCHANGED pag_vars
    /\ UNCHANGED codec_vars
    /\ UNCHANGED fetch_vars
    /\ UNCHANGED apply_vars
    /\ UNCHANGED config_vars

\* /usage: post the command table and return
UsageCommand ==
    /\ m_pc = "/usage"
    /\ PostComment("usage")
    /\ Exit(0)
    /\ UNCHANGED <<applied, completions>>
    /\ UNCHANGED main_inputs
    /\ UNCHANGED exec_vars
    /\ UNCHANGED pag_vars
    /\ UNCHANGED codec_vars
    /\ UNCHANGED fetch_vars
    /\ UNCHANGED apply_vars
    /\ UNCHANGED config_vars

\* /disable: post the notice that carries the disabled marker and return
DisableCommand ==
    /\ m_pc = "/disable"
    /\ PostComment("disabled")
    /\ Exit(0)
    /\ UNCHANGED <<applied, completions>>
    /\ UNCHANGED main_inputs
    /\ UNCHANGED exec_vars
    /\ UNCHANGED pag_vars
    /\ UNCHANGED codec_vars
    /\ UNCHANGED fetch_vars
    /\ UNCHANGED apply_vars
    /\ UNCHANGED config_vars

(***************************************************************************)
(* One call of graphql_fetch_issue on a response of execute                *)
(***************************************************************************)
\* the after arguments: None, and the cursors of two comments
FetchCursors == {NoCursor, 1, 2}

\* comments.nodes of a response
FetchNodes ==
    SeqsUpTo({NullNode, Node(1, "plain"), Node(2, "disabled")}, PageSize)

\* comments.pageInfo of a response: absent, complete, or without the flag
PageInfos ==
    {NoPageInfo, [endCursor |-> 2]}
        \cup {[hasNextPage |-> b, endCursor |-> c] : b \in BOOLEAN, c \in {NoCursor, 2}}

\* the responses execute returns: with or without the repository and the
\* issue (a response without the repository holds no issue)
FetchData ==
    {d \in [has_repository : BOOLEAN, has_issue : BOOLEAN,
            nodes : FetchNodes, page_info : PageInfos] :
        d.has_issue => d.has_repository}

NoFetchData ==
    [has_repository |-> FALSE, has_issue |-> FALSE, nodes |-> <<>>,
     page_info |-> NoPageInfo]

NoFetchResult == [exits |-> FALSE, snapshot |-> NoSnapshot, page_info |-> NoPageInfo]

FetchIdle ==
    /\ f_pc = "start"
    /\ f_after = NoCursor
    /\ f_data = NoFetchData
    /\ f_result = NoFetchResult

FetchInit ==
    /\ f_pc = "start"
    /\ f_after \in FetchCursors
    /\ f_data \in FetchData
    /\ f_result = NoFetchResult

\* graphql_fetch_issue returns (snapshot, page_info)
FetchReturns ==
    /\ f_pc = "start"
    /\ ~ParseIssue(f_after, f_data).exits
    /\ f_result' = ParseIssue(f_after, f_data)
    /\ f_pc' = "returned"
    /\ UNCHANGED <<f_after, f_data>>
    /\ UNCHANGED exec_vars
    /\ UNCHANGED pag_vars
    /\ UNCHANGED codec_vars
    /\ UNCHANGED main_vars
    /\ UNCHANGED apply_vars
    /\ UNCHANGED config_vars

\* graphql_fetch_issue ends the process: repository or issue not found
FetchNotFound ==
    /\ f_pc = "start"
    /\ ParseIssue(f_after, f_data).exits
    /\ f_pc' = "exited"
    /\ UNCHANGED <<f_after, f_data, f_result>>
    /\ UNCHANGED exec_vars
    /\ UNCHANGED pag_vars
    /\ UNCHANGED codec_vars
    /\ UNCHANGED main_vars
    /\ UNCHANGED apply_vars
    /\ UNCHANGED config_vars

(***************************************************************************)
(* /apply commands on the comment thread of one issue                      *)
(***************************************************************************)
\* the most /apply commands handled on one issue
MaxApplies == 2

ApplyCommandBody == <<"/","a","p","p","l","y">>

\* get_ai_enhanced_comment: the body of the last comment that holds the
\* marker, None without one
GetAiEnhancedComment(bodies) ==
    LET at == {i \in 1..Len(bodies) : IsAiEnhancedComment(bodies[i])}
    IN  IF at = {} THEN [none |-> TRUE, body |-> <<>>]
        ELSE [none |-> FALSE, body |-> bodies[MaxOf(at)]]

\* the arguments /apply passes to update_github_issue, and whether the
\* confirmation comment was created
Edit(r, confirmed) ==
    [title |-> r.refactored.title,
     body |-> BodyMarkdown(r.refactored),
     labels |-> r.labels,
     confirmed |-> confirmed]

\* the evaluations whose comment offers /apply: not ready to work, story clear
ApplyRecords ==
    {r \in Records :
        /\ ~r.ready_to_work /\ ~r.base_story_not_clear
        /\ r.title_complete /\ r.description_complete
        /\ r.acceptance_criteria_complete}

ApplyInit ==
    /\ c_pc = "start"
    /\ rec \in ApplyRecords
    /\ text = <<>>
    /\ md = <<>>
    /\ dec = NoRecord

ApplyIdle ==
    /\ thread = <<>>
    /\ edits = <<>>

\* the evaluation of rec is posted as a comment of the issue
PostEvaluation ==
    /\ c_pc = "start"
    /\ md' = ToMarkdown(rec)
    /\ thread' = <<ToMarkdown(rec)>>
    /\ c_pc' = "posted"
    /\ UNCHANGED <<rec, text, dec, edits>>
    /\ UNCHANGED exec_vars
    /\ UNCHANGED pag_vars
    /\ UNCHANGED main_vars
    /\ UNCHANGED fetch_vars
    /\ UNCHANGED config_vars

\* a user comments /apply and handle_github_comment_event handles it on a
\* PyGithub issue: decode the evaluation comment found, update the issue,
\* post the confirmation (created or not)
ApplyCommand ==
    /\ c_pc = "posted"
    /\ Len(edits) < MaxApplies
    /\ LET comments == Append(thread, ApplyCommandBody)
           found == GetAiEnhancedComment(comments)
           r == FromMarkdown(found.body)
       IN  IF found.none
           THEN /\ thread' = comments
                /\ UNCHANGED <<dec, edits>>
           ELSE /\ dec' = r
                /\ \E created \in BOOLEAN :
                       /\ edits' = Append(edits, Edit(r, created))
                       /\ thread' = IF created
                                     THEN Append(comments, ConfirmationComment(r))
                                     ELSE comments
    /\ UNCHANGED <<c_pc, rec, text, md>>
    /\ UNCHANGED exec_vars
    /\ UNCHANGED pag_vars
    /\ UNCHANGED main_vars
    /\ UNCHANGED fetch_vars
    /\ UNCHANGED config_vars

(***************************************************************************)
(* The Config object (src/src/config.py) after Config() has returned       *)
(***************************************************************************)
\* the most attribute assignments made on the object
MaxAssigns == 3

\* the attributes __init__ sets
ConfigAttrs == {"_initialized", "check_all", "github", "openai"}

\* the values assigned: booleans, None, and objects
ConfigValues == {"True", "False", "None", "GitHubConfig", "OpenAIConfig"}

\* bool(value)
Truthy(value) == value \notin {"False", "None"}

\* Config.__setattr__(name, value): the condition under which it raises
\* AttributeError; hasattr(self, "_initialized") is true once __init__ ran
SetAttrRaises(c, name) == Truthy(c._initialized) /\ name # "_initialized"

\* the object Config.__init__ leaves
BuiltConfigs ==
    {[_initialized |-> "True", check_all |-> b, github |-> "GitHubConfig",
      openai |-> "OpenAIConfig"] : b \in {"True", "False"}}

NoConfig ==
    [_initialized |-> "False", check_all |-> "False", github |-> "None",
     openai |-> "None"]

ConfigIdle ==
    /\ cfg_built = NoConfig
    /\ cfg = NoConfig
    /\ cfg_log = <<>>

ConfigInit ==
    /\ cfg_built \in BuiltConfigs
    /\ cfg = cfg_built
    /\ cfg_log = <<>>

\* config.<name> = value
SetAttr(name, value) ==
    /\ Len(cfg_log) < MaxAssigns
    /\ IF SetAttrRaises(cfg, name)
       THEN /\ cfg' = cfg
            /\ cfg_log' = Append(cfg_log, [name |-> name, value |-> value, raised |-> TRUE])
       ELSE /\ cfg' = [cfg EXCEPT ![name] = value]
            /\ cfg_log' = Append(cfg_log, [name |-> name, value |-> value, raised |-> FALSE])
    /\ UNCHANGED cfg_built
    /\ UNCHANGED exec_vars
    /\ UNCHANGED pag_vars
    /\ UNCHANGED codec_vars
    /\ UNCHANGED main_vars
    /\ UNCHANGED fetch_vars
    /\ UNCHANGED apply_vars

Assign == \E name \in ConfigAttrs, value \in ConfigValues : SetAttr(name, value)

(***************************************************************************)
(* The specifications                                                      *)
(***************************************************************************)
InitExecute == ExecInit /\ PagIdle /\ FetchIdle /\ ApplyIdle /\ ConfigIdle /\ CodecIdle /\ MainIdle /\ issue_comments = <<>>

NextExecute ==
    \/ ExecuteCall
    \/ AttemptResponse
    \/ AttemptGithubException
    \/ AttemptUnexpected

SpecExecute == InitExecute /\ [][NextExecute]_vars

InitPaginate == ExecInit /\ PagIdle /\ FetchIdle /\ ApplyIdle /\ ConfigIdle /\ CodecIdle /\ MainIdle /\ issue_comments \in Issues

NextPaginate ==
    \/ GetGithubIssue
    \/ DirectCall
    \/ PaginateNotTruncated
    \/ PaginateBothFound
    \/ PaginateStart
    \/ PaginateLoop

SpecPaginate == InitPaginate /\ [][NextPaginate]_vars

\* the issues whose comments hold one marker or none
MarkerIssues == UNION {[1..n -> {"plain", "disabled", "ai"}] : n \in 0..MaxComments}

InitTerminate ==
    /\ ExecInit /\ PagIdle /\ FetchIdle /\ ApplyIdle /\ ConfigIdle /\ CodecIdle /\ MainIdle
    /\ issue_comments \in MarkerIssues

\* get_github_issue and paginate_issue_comments on an issue whose comments are
\* deleted while the call runs
NextLive ==
    \/ NextPaginate
    \/ DeleteComment

SpecLive == InitTerminate /\ [][NextLive]_vars

\* get_github_issue and paginate_issue_comments run to their end: a call that
\* can take a step takes it
SpecTerminate == InitTerminate /\ [][NextPaginate]_vars /\ WF_vars(NextPaginate)

InitCodec == ExecInit /\ PagIdle /\ FetchIdle /\ ApplyIdle /\ ConfigIdle /\ CodecInit /\ MainIdle /\ issue_comments = <<>>

NextCodec ==
    \/ Encode
    \/ Decode
    \/ ParseText

SpecCodec == InitCodec /\ [][NextCodec]_vars

InitStory ==
    /\ ExecInit /\ PagIdle /\ StoryInit /\ MainIdle /\ FetchIdle /\ ApplyIdle /\ ConfigIdle
    /\ issue_comments = <<>>

NextStory == DecodeStory

SpecStory == InitStory /\ [][NextStory]_vars

InitMain ==
    /\ ExecInit /\ PagIdle /\ CodecIdle /\ MainInit /\ FetchIdle /\ ApplyIdle /\ ConfigIdle
    /\ issue_comments = <<>>

NextMain ==
    \/ MainDispatch
    \/ IssuesEvent
    \/ CommentEvent
    \/ ApplyLookup
    \/ ApplyUpdate
    \/ ApplyConfirm
    \/ ReviewCommand
    \/ UsageCommand
    \/ DisableCommand

SpecMain == InitMain /\ [][NextMain]_vars

InitFetch ==
    /\ ExecInit /\ PagIdle /\ CodecIdle /\ MainIdle /\ FetchInit /\ ApplyIdle /\ ConfigIdle
    /\ issue_comments = <<>>

NextFetch ==
    \/ FetchReturns
    \/ FetchNotFound

SpecFetch == InitFetch /\ [][NextFetch]_vars

InitApply ==
    /\ ExecInit /\ PagIdle /\ ApplyInit /\ MainIdle /\ FetchIdle /\ ApplyIdle /\ ConfigIdle
    /\ issue_comments = <<>>

NextApply ==
    \/ PostEvaluation
    \/ ApplyCommand

SpecApply == InitApply /\ [][NextApply]_vars

InitConfig ==
    /\ ExecInit /\ PagIdle /\ CodecIdle /\ MainIdle /\ FetchIdle /\ ApplyIdle
    /\ ConfigInit
    /\ issue_comments = <<>>

NextConfig == Assign

SpecConfig == InitConfig /\ [][NextConfig]_vars

(***************************************************************************)
(* Claims about GraphQLExecutor.execute (checked under SpecExecute)        *)
(***************************************************************************)
\* the first k query attempts all raised a transient GithubException
AllTransient(k) == \A i \in 1..k : IsTransient(hist[i])

HasRetryableError(o) ==
    /\ o.kind = "response"
    /\ o.hasErrors
    /\ \E i \in 1..Len(o.errors) : o.errors[i] \in {"RATE_LIMITED", "INTERNAL"}

IsUnexpected(o) == o.kind = "exception"

LastEvent == trace[Len(trace)]

\* C1: k transient GithubExceptions (502, 503, 504, -1) followed by a success
\* make execute return that response's data after exactly k sleeps, of 2s then
\* 4s, for k <= 2; three transient failures end the process after exactly 3
\* query attempts and 2 sleeps (2s, 4s).
C1_TransientThenSuccess ==
    /\ \A k \in 0..2 :
          (Len(hist) = k + 1 /\ AllTransient(k) /\ IsOk(hist[k + 1]))
              => /\ ex_pc = "returned"
                 /\ result = hist[k + 1]
                 /\ Queries = k + 1
                 /\ SleepSecs = SubSeq(<<2, 4>>, 1, k)
    /\ (Len(hist) >= 3 /\ AllTransient(3))
          => /\ ex_pc = "exited"
             /\ Len(hist) = 3
             /\ Queries = 3
             /\ SleepSecs = <<2, 4>>
             /\ trace = <<QueryEvent, SleepEvent(2), QueryEvent, SleepEvent(4), QueryEvent>>

C1_Witness ==
    /\ ex_pc = "returned"
    /\ Len(hist) = 3
    /\ AllTransient(2)
    /\ SleepSecs = <<2, 4>>

\* C2 (as claimed): a response with a RATE_LIMITED or INTERNAL error received
\* on attempt index 0 or 1 is followed by another query attempt, not by the
\* exit of the process.
C2_RetryableErrorIsRetried ==
    \A i \in 1..Len(hist) :
        (i <= 2 /\ HasRetryableError(hist[i]))
            => (Len(hist) > i \/ ex_pc = "attempting")

\* C3: a GithubException with status 401 or 403 ends the process on that
\* attempt: no sleep follows its query, no further query is made; a 401 on the
\* first attempt gives exactly 1 query and 0 sleeps.
C3_AuthIsFatal ==
    \A i \in 1..Len(hist) :
        (hist[i].kind = "github" /\ hist[i].status \in {401, 403})
            => /\ i = Len(hist)
               /\ ex_pc = "exited"
               /\ Queries = i
               /\ LastEvent = QueryEvent
               /\ (i = 1 => Len(Sleeps) = 0)

C3_Witness ==
    /\ ex_pc = "exited"
    /\ Len(hist) = 2
    /\ IsTransient(hist[1])
    /\ hist[2] = GithubExc(403)

\* C4 (as claimed): the first unexpected exception of a call, at whatever
\* attempt index, is followed by exactly one further query attempt, and a
\* second unexpected exception ends the process.
C4_UnexpectedRetriedOnce ==
    \A i \in 1..Len(hist) :
        (IsUnexpected(hist[i]) /\ \A j \in 1..(i - 1) : ~IsUnexpected(hist[j]))
            => /\ (Len(hist) = i => ex_pc = "attempting")
               /\ Len(hist) <= i + 1
               /\ \A j \in (i + 1)..Len(hist) :
                      IsUnexpected(hist[j]) => ex_pc = "exited"

\* C5 (as claimed): within one call at most 2 sleeps occur, each of 2s or 4s,
\* and none before the first query attempt.
C5_AtMostTwoSleeps ==
    /\ Len(Sleeps) <= 2
    /\ \A i \in 1..Len(Sleeps) : Sleeps[i].secs \in {2, 4}
    /\ (Len(trace) > 0 => trace[1] = QueryEvent)

\* C6: a call makes at most 3 query attempts, never stops short of an end
\* while it has attempts left, and ends by returning a response without the
\* errors key or by the exit of the process; a response with an errors key is
\* never what it returns.
C6_ReturnsCleanDataOrExits ==
    /\ Len(hist) <= 3
    /\ Queries = Len(hist)
    /\ (ex_pc = "attempting" => (attempt = Len(hist) /\ attempt < 3 /\ ENABLED NextExecute))
    /\ (ex_pc = "returned"
          => /\ result = hist[Len(hist)]
             /\ result.kind = "response"
             /\ ~result.hasErrors)
    /\ (ex_pc # "returned" => result = NoData)
    /\ (ex_pc = "exited" => ~IsOk(hist[Len(hist)]))

C6_Witness ==
    /\ ex_pc = "returned"
    /\ Len(hist) = 3
    /\ result = Response(FALSE, <<>>, "d2")

\* C7 (as claimed): a GithubException with any 5xx status, or a network
\* failure, is retried while the 3-attempt cap is not exhausted.
C7_Every5xxIsTransient ==
    \A i \in 1..Len(hist) :
        (/\ hist[i].kind = "github"
         /\ (hist[i].status \in 500..599 \/ hist[i].status = -1)
         /\ i < 3)
            => (Len(hist) > i \/ ex_pc = "attempting")

\* C7 (amended): the statuses 502, 503, 504 and -1 are retried with backoff
\* while the 3-attempt cap is not exhausted and are fatal on the third
\* attempt; every other 5xx status is fatal on the attempt that raises it,
\* with no sleep and no retry.
C7_GatewayStatusesAreTransient ==
    \A i \in 1..Len(hist) :
        hist[i].kind = "github"
            => /\ (hist[i].status \in {502, 503, 504, -1} /\ i < 3)
                    => /\ (Len(hist) > i \/ ex_pc = "attempting")
                       /\ (Len(hist) = i => LastEvent.ev = "sleep")
               /\ (hist[i].status \in {502, 503, 504, -1} /\ i = 3)
                    => (ex_pc = "exited" /\ LastEvent = QueryEvent)
               /\ (hist[i].status \in (500..599) \ {502, 503, 504})
                    => (Len(hist) = i /\ ex_pc = "exited" /\ LastEvent = QueryEvent)

C7_Witness ==
    /\ ex_pc = "exited"
    /\ Len(hist) = 2
    /\ hist[1] = GithubExc(503)
    /\ hist[2] = GithubExc(500)

(***************************************************************************)
(* Claims about paginate_issue_comments (checked under SpecPaginate)       *)
(***************************************************************************)
\* the markers as the specification defines them: the disabled marker is
\* matched letter for letter, the AI-comment marker in any letter case
HoldsDisabledMarker(body) == body \in {"disabled", "both"}

HoldsAiMarker(body) == body \in {"ai", "ai_lower", "both"}

\* paginate_issue_comments has been called
PaginateCalled == initial_snapshot # NoSnapshot

\* the comment pages of the issue, as the server cuts them
NPages == (Len(issue_comments) + PageSize - 1) \div PageSize

PageOf(i) == ((i - 1) \div PageSize) + 1

DisabledOnPage(q) ==
    \E i \in 1..Len(issue_comments) :
        PageOf(i) = q /\ HoldsDisabledMarker(issue_comments[i])

AiOnPage(q) ==
    \E i \in 1..Len(issue_comments) :
        PageOf(i) = q /\ HoldsAiMarker(issue_comments[i])

\* by the end of page q both markers have been seen
BothBy(q) == (\E a \in 1..q : DisabledOnPage(a)) /\ (\E b \in 1..q : AiOnPage(b))

\* the page a query with cursor c asks for
RequestedPage(c) == (c \div PageSize) + 1

\* C8: called with a snapshot whose had_truncated is false,
\* paginate_issue_comments returns it with comments, fetched_pages and
\* had_truncated unchanged and issues no query.
C8_NotTruncatedReturnsUnchanged ==
    (PaginateCalled /\ ~initial_snapshot.had_truncated)
        => /\ pc \in {"paginate", "returned"}
           /\ (pc = "paginate" => ENABLED PaginateNotTruncated)
           /\ snapshot = initial_snapshot
           /\ requests = <<>>

C8_Witness ==
    /\ PaginateCalled
    /\ ~initial_snapshot.had_truncated
    /\ Len(initial_snapshot.comments) = 2
    /\ pc = "returned"

\* C9: a truncated initial snapshot whose comments already hold both the
\* disabled marker and the AI-comment marker is returned at once: no query is
\* issued and comments, fetched_pages and had_truncated are unchanged.
C9_BothMarkersReturnsAtOnce ==
    (/\ PaginateCalled
     /\ initial_snapshot.had_truncated
     /\ \E i \in 1..Len(initial_snapshot.comments) :
            HoldsDisabledMarker(initial_snapshot.comments[i].body)
     /\ \E i \in 1..Len(initial_snapshot.comments) :
            HoldsAiMarker(initial_snapshot.comments[i].body))
        => /\ pc \in {"paginate", "returned"}
           /\ (pc = "paginate" => ENABLED PaginateBothFound)
           /\ snapshot = initial_snapshot
           /\ requests = <<>>

C9_Witness ==
    /\ pc = "returned"
    /\ PaginateCalled
    /\ initial_snapshot.had_truncated
    /\ initial_snapshot.comments[1].body = "disabled"
    /\ initial_snapshot.comments[2].body = "ai_lower"
    /\ requests = <<>>

\* C10: no page is requested after the first page by whose end both markers
\* have been found; with the AI marker on page 1 and the disabled marker first
\* on page p (2 <= p <= N) the last page requested is page p and the snapshot
\* returned has fetched_pages = p and had_truncated = (p < N).
C10_StopsAtPageOfSecondMarker ==
    /\ \A k \in 1..Len(requests) :
           \A q \in 1..NPages : BothBy(q) => RequestedPage(requests[k]) <= q
    /\ \A p \in 2..NPages :
           (/\ pc = "returned"
            /\ PaginateCalled
            /\ AiOnPage(1)
            /\ DisabledOnPage(p)
            /\ \A q \in 1..(p - 1) : ~DisabledOnPage(q))
               => /\ Len(requests) = p
                  /\ RequestedPage(requests[Len(requests)]) = p
                  /\ snapshot.fetched_pages = p
                  /\ snapshot.had_truncated = (p < NPages)

C10_Witness ==
    /\ pc = "returned"
    /\ PaginateCalled
    /\ NPages = 3
    /\ AiOnPage(1)
    /\ ~DisabledOnPage(1)
    /\ DisabledOnPage(2)
    /\ snapshot.fetched_pages = 2
    /\ snapshot.had_truncated

Max2(a, b) == IF a > b THEN a ELSE b

\* the comments of the issue's first n positions, as the server serves them
ServedUpTo(n) == [i \in 1..n |-> [db_id |-> i, body |-> issue_comments[i]]]

\* the last page paginate_issue_comments holds: page 1 came with the snapshot,
\* the first query asks for page 1 again, each later one for the next page
LastPageHeld == IF Len(requests) = 0 THEN 1 ELSE Len(requests)

\* C11: when paginate_issue_comments returns having fetched up to page k, the
\* snapshot's comments are the comments of pages 1..k in page order, none
\* duplicated or skipped, fetched_pages = k and had_truncated is the
\* hasNextPage flag of page k.
C11_SnapshotIsPagesInOrder ==
    (pc = "returned" /\ PaginateCalled)
        => LET k == LastPageHeld
               n == Min(k * PageSize, Len(issue_comments))
           IN  /\ snapshot.comments = ServedUpTo(n)
               /\ snapshot.fetched_pages = k
               /\ snapshot.had_truncated = (n < Len(issue_comments))
               /\ \A j \in 1..Len(requests) : RequestedPage(requests[j]) = Max2(1, j)

C11_Witness ==
    /\ pc = "returned"
    /\ PaginateCalled
    /\ snapshot.fetched_pages = 3
    /\ Len(snapshot.comments) = 5
    /\ ~snapshot.had_truncated


\* get_github_issue has returned its snapshot
IssueFetched == pc = "returned" /\ caller = "get_github_issue"

\* the positions of the issue's comments that hold the disabled marker
DisabledAt == {i \in 1..Len(issue_comments) : ContainsDisabled(issue_comments[i])}

\* C26: when any comment of the issue, on any page, holds the disabled
\* marker, is_agent_disabled is true of the snapshot get_github_issue
\* returns: the early exit of the paginator never hides the marker.
C26_EarlyExitKeepsDisabledMarker ==
    (IssueFetched /\ DisabledAt # {}) => AnyDisabled(snapshot.comments)

\* the paginator stopped before the last page, the only marker comment is
\* beyond the first page, and the snapshot holds it
C26_Witness ==
    /\ IssueFetched
    /\ Len(snapshot.comments) < Len(issue_comments)
    /\ DisabledAt # {}
    /\ \A i \in DisabledAt : i > PageSize
    /\ AnyDisabled(snapshot.comments)

\* C27: whichever comment of the issue triggered the event, get_github_comment
\* finds it by its database id in the snapshot get_github_issue returns, also
\* when the paginator stopped before the page that holds it.
C27_TriggeringCommentIsFound ==
    IssueFetched =>
        \A id \in 1..Len(issue_comments) :
            ~GetGithubComment(snapshot.comments, id).raises

\* the positions of the issue's comments that hold the AI marker
AiAt == {i \in 1..Len(issue_comments) : ContainsAiMarker(issue_comments[i])}

\* C28: get_ai_enhanced_comment on the snapshot get_github_issue returns gives
\* the most recently created comment of the whole issue that holds the AI
\* marker.
C28_NewestEvaluationIsReturned ==
    (IssueFetched /\ AiAt # {}) =>
        LET got == NewestAiComment(snapshot.comments)
        IN  ~got.none /\ got.db_id = MaxOf(AiAt)

\* the endCursor of the response to a query with cursor c
EndCursorOf(c) == GraphqlFetchIssue(c).page_info.endCursor

\* C34: when the paginator has to fetch, its first request is the one with
\* after = None (page 1 again) and it is the only such request; every later
\* request asks for the next page, with after equal to the endCursor of the
\* response before it; on return the number of requests is fetched_pages.
C34_RequestsFollowCursors ==
    PaginateCalled =>
        /\ \A j \in 1..Len(requests) : (requests[j] = NoCursor) <=> (j = 1)
        /\ \A j \in 2..Len(requests) :
               /\ requests[j] = EndCursorOf(requests[j - 1])
               /\ RequestedPage(requests[j]) = j
        /\ (pc = "returned" /\ requests # <<>>)
               => Len(requests) = snapshot.fetched_pages

\* the paginator returned after the duplicate request and the requests for
\* pages 2 and 3
C34_Witness ==
    /\ pc = "returned"
    /\ PaginateCalled
    /\ Len(requests) = 3
    /\ requests[3] = 2 * PageSize
    /\ snapshot.fetched_pages = 3
    /\ snapshot.had_truncated = FALSE
    /\ ~AnyDisabled(snapshot.comments)

\* C35 (checked under SpecTerminate): for an issue of N comment pages,
\* paginate_issue_comments ends, and by then it has issued at most N
\* queries, whether or not a marker occurs in any comment.
C35_EndsWithinNQueries ==
    /\ [](PaginateCalled => Len(requests) <= NPages)
    /\ <>(pc \in {"returned", "exited"})

\* the paginator returned after N = 3 queries on an issue without any marker
C35_Witness ==
    /\ pc = "returned"
    /\ PaginateCalled
    /\ NPages = 3
    /\ Len(requests) = NPages
    /\ \A i \in 1..Len(issue_comments) : issue_comments[i] = "plain"

\* C36: paginate_issue_comments leaves the IssueSnapshot object it was passed
\* as it was: after the call its comments, fetched_pages and had_truncated
\* are what they were before the call.
C36_InitialSnapshotIsNotModified ==
    (pc = "returned" /\ PaginateCalled)
        => /\ InitialSnapshotObject.comments = initial_snapshot.comments
           /\ InitialSnapshotObject.fetched_pages = initial_snapshot.fetched_pages
           /\ InitialSnapshotObject.had_truncated = initial_snapshot.had_truncated

(***************************************************************************)
(* Claims about the paginator on an issue that changes (checked under      *)
(* SpecLive)                                                               *)
(***************************************************************************)
\* C33: whenever paginate_issue_comments returns a snapshot whose
\* had_truncated is true, both markers have been found in its comments (the
\* server reporting a non-empty endCursor with every hasNextPage = true).
C33_TruncatedOnlyWithBothMarkers ==
    (pc = "returned" /\ PaginateCalled /\ snapshot.had_truncated)
        => (AnyDisabled(snapshot.comments) /\ AnyAiComment(snapshot.comments))

\* the database ids of the comments a snapshot holds
IdsOf(snap) == {snap.comments[k].db_id : k \in 1..Len(snap.comments)}

\* C37: when a comment of page 1 has been deleted after the caller's
\* first-page fetch, the snapshot returned still holds every existing comment
\* between its first and its last position: none is skipped where page 1
\* meets page 2.
C37_NoCommentSkippedAfterDelete ==
    (pc = "returned" /\ PaginateCalled /\ IdsOf(initial_snapshot) \cap deleted # {})
        => \A i \in 1..Len(issue_comments) :
               (/\ i \notin deleted
                /\ i >= MinOf(IdsOf(snapshot))
                /\ i <= MaxOf(IdsOf(snapshot)))
                   => i \in IdsOf(snapshot)

(***************************************************************************)
(* Claims about Config (checked under SpecConfig)                          *)
(***************************************************************************)
\* C38: once Config() has returned, no sequence of attribute assignments
\* changes check_all, github or openai: each such assignment raises
\* AttributeError and leaves the value as it was, also after an assignment
\* to _initialized.
C38_ConfigIsImmutable ==
    /\ cfg.check_all = cfg_built.check_all
    /\ cfg.github = cfg_built.github
    /\ cfg.openai = cfg_built.openai
    /\ \A i \in 1..Len(cfg_log) :
           cfg_log[i].name \in {"check_all", "github", "openai"} => cfg_log[i].raised

(***************************************************************************)
(* Claims about the response codec (checked under SpecCodec)               *)
(***************************************************************************)
\* a single-line trimmed string
SingleLineTrimmed(x) ==
    /\ \A i \in 1..Len(x) : x[i] # "\n"
    /\ Strip(x) = x

\* the records the round-trip law is stated for
WellFormed(r) ==
    /\ SingleLineTrimmed(r.summary)
    /\ SingleLineTrimmed(r.importance)
    /\ SingleLineTrimmed(r.acceptance_criteria_evaluation)
    /\ \A k \in 1..Len(r.labels) :
        /\ r.labels[k] # <<>>
        /\ SingleLineTrimmed(r.labels[k])
        /\ \A i \in 1..Len(r.labels[k]) : r.labels[k][i] # ","

\* a story that holds a title, a description or a criterion
StoryNonEmpty(s) ==
    s.title # <<>> \/ s.description # <<>> \/ ListTruthy(s.acceptance_criteria)

\* C12 (as claimed): from_markdown(r.to_markdown()) has the summary, the
\* three completeness flags, the importance, the acceptance-criteria
\* evaluation, the labels and the ready_to_work of a well-formed record r.
C12_RoundTripKeepsEvaluation ==
    (c_pc = "decoded" /\ WellFormed(rec))
        => /\ dec.summary = rec.summary
           /\ dec.title_complete = rec.title_complete
           /\ dec.description_complete = rec.description_complete
           /\ dec.acceptance_criteria_complete = rec.acceptance_criteria_complete
           /\ dec.importance = rec.importance
           /\ dec.acceptance_criteria_evaluation
                  = rec.acceptance_criteria_evaluation
           /\ dec.labels = rec.labels
           /\ dec.ready_to_work = rec.ready_to_work

\* C13 (as claimed): with ready_to_work and base_story_not_clear false and a
\* non-empty refactored story, the decoded story has the title, the
\* description and the acceptance criteria of r.refactored, character for
\* character.
C13_RoundTripKeepsStory ==
    (/\ c_pc = "decoded"
     /\ ~rec.ready_to_work /\ ~rec.base_story_not_clear
     /\ StoryNonEmpty(rec.refactored))
        => /\ dec.refactored.title = rec.refactored.title
           /\ dec.refactored.description = rec.refactored.description
           /\ dec.refactored.acceptance_criteria.items
                  = rec.refactored.acceptance_criteria.items


\* the story from_text builds when the text holds no refactored section
EmptyTextStory == UserStoryRefactored(<<>>, <<>>, ListOf(<<>>))

\* the record from_text builds when no line of the text is recognised
DefaultRecord ==
    [summary |-> <<>>,
     title_complete |-> FALSE,
     description_complete |-> FALSE,
     acceptance_criteria_complete |-> FALSE,
     importance |-> <<>>,
     acceptance_criteria_evaluation |-> <<>>,
     labels |-> <<>>,
     ready_to_work |-> FALSE,
     base_story_not_clear |-> FALSE,
     refactored |-> EmptyTextStory]

ReadAsFlagLine(c) ==
    LET line == <<"-", " ">> \o c
    IN  \/ StartsWith(line, TitleFlagKey)
        \/ StartsWith(line, DescriptionFlagKey)
        \/ StartsWith(line, CriteriaFlagKey)

IsNotFlagLine(c) == ~ReadAsFlagLine(c)

\* the criteria that are not read as completeness lines, in order
NotFlagLines(cs) == SelectSeq(cs, IsNotFlagLine)

C17_MissingStoryHasEmptyCriteria ==
    /\ ~rec.refactored.none
    /\ c_pc \in {"decoded", "parsed"} => ~dec.refactored.none
    /\ (c_pc = "decoded" /\ ~EmitsSection(rec))
        => dec.refactored = EmptyTextStory
    /\ (c_pc = "parsed" /\ text # ModelOutput(rec, TRUE))
        => dec.refactored = EmptyTextStory

\* C17 (amended): the refactored field of a record is never null.  When the
\* constructor is given no story, as in from_markdown of a comment without a
\* refactored section, the story has an empty title, an empty description and
\* acceptance_criteria None; from_text of a text without a section gives an
\* empty title, an empty description and an empty list.
C17_MissingStoryIsDefault ==
    /\ ~rec.refactored.none
    /\ c_pc \in {"decoded", "parsed"} => ~dec.refactored.none
    /\ (c_pc = "decoded" /\ ~EmitsSection(rec))
        => /\ dec.refactored = DefaultStory
           /\ dec.refactored.acceptance_criteria = NoneList
    /\ (c_pc = "parsed" /\ text # ModelOutput(rec, TRUE))
        => dec.refactored = EmptyTextStory

C17_Witness ==
    /\ c_pc = "decoded"
    /\ StoryNonEmpty(rec.refactored)
    /\ rec.ready_to_work
    /\ dec.refactored = DefaultStory

\* C18: the output of to_markdown contains 'AI-enhanced Evaluation', and a
\* comment with that body passes the case-insensitive marker test of
\* get_ai_enhanced_comment and of the paginator.
C18_OutputCarriesAiMarker ==
    c_pc \in {"encoded", "decoded"}
        => /\ Contains(md, AiCommentMarker)
           /\ IsAiEnhancedComment(md)

C18_Witness ==
    /\ c_pc = "encoded"
    /\ IsAiEnhancedComment(md)
    /\ rec.summary # <<>>

ApplyWord ==
    <<"/","a","p","p","l","y">>

\* str.endswith(suffix)
EndsWith(s, suffix) ==
    /\ Len(s) >= Len(suffix)
    /\ SubSeq(s, Len(s) - Len(suffix) + 1, Len(s)) = suffix

\* C19: with ready_to_work false and base_story_not_clear true, to_markdown
\* ends with the note that no refactored story is provided: no
\* '### Refactored Story' subsection and no '/apply' instruction follow,
\* whatever the refactored field holds.
C19_UnclearStoryEndsWithNote ==
    (c_pc \in {"encoded", "decoded"}
         /\ ~rec.ready_to_work /\ rec.base_story_not_clear)
        => /\ EndsWith(md, UnclearNote)
           /\ ~Contains(md, RefactoredStoryKey)
           /\ ~Contains(md, ApplyWord)

C19_Witness ==
    /\ c_pc = "encoded"
    /\ ~rec.ready_to_work /\ rec.base_story_not_clear
    /\ StoryNonEmpty(rec.refactored)
    /\ EndsWith(md, UnclearNote)

\* C20 (as claimed): to_markdown emits the '### Refactored Story' subsection
\* and the '/apply' instruction if and only if the refactored story is
\* non-empty and ready_to_work and base_story_not_clear are false.
C20_SectionOnlyForNonEmptyStory ==
    c_pc \in {"encoded", "decoded"}
        => LET wanted == /\ StoryNonEmpty(rec.refactored)
                         /\ ~rec.ready_to_work /\ ~rec.base_story_not_clear
           IN  /\ Contains(md, RefactoredStoryKey) <=> wanted
               /\ Contains(md, ApplyWord) <=> wanted

(***************************************************************************)
(* Claims about the event handlers of main.py (checked under SpecMain)     *)
(***************************************************************************)
\* the invocation has ended
Exited == m_pc = "exited"

\* C14: an invocation in which posting a comment or applying the edits to
\* the issue failed ends with a nonzero exit status.
C14_FailedPostOrApplyExitsNonzero ==
    (Exited /\ failed # {}) => exit_code # 0

\* an automatic issue event on an issue that holds the disabled marker
AutomaticOnDisabled ==
    /\ event_name = "issues"
    /\ \E i \in 1..Len(held) : held[i].body \in {"disabled", "both"}

\* a comment event whose comment asks for /review (and not for /apply)
ManualReview ==
    /\ event_name = "issue_comment"
    /\ comment_found
    /\ "/review" \in commands
    /\ "/apply" \notin commands

\* an automatic issue event on an issue whose comments hold the marker only
\* in another letter case
AutomaticOnOtherCase ==
    /\ event_name = "issues"
    /\ \E i \in 1..Len(held) : held[i].body = "disabled_upper"
    /\ \A i \in 1..Len(held) : held[i].body \notin {"disabled", "both"}

\* C22: with the disabled marker in a held comment an automatic issue event
\* runs no completion and posts nothing, a manual /review still runs the
\* evaluation, and the marker in another letter case does not disable.
C22_MarkerDisablesOnlyAutomaticRuns ==
    Exited =>
        /\ AutomaticOnDisabled => (completions = 0 /\ posted = <<>>)
        /\ ManualReview => completions = 1
        /\ AutomaticOnOtherCase => completions = 1

\* a comment of kind k has been posted
Posted(k) == \E i \in 1..Len(posted) : posted[i] = k

\* the handler is in, or has carried out, the action of command c
Doing(c) ==
    CASE c = "/apply" ->
             m_pc \in {"/apply", "update", "confirm"} \/ Posted("confirmation")
                 \/ applied # {}
      [] c = "/review" ->
             m_pc = "/review" \/ Posted("evaluation") \/ completions > 0
      [] c = "/usage" -> m_pc = "/usage" \/ Posted("usage")
      [] c = "/disable" -> m_pc = "/disable" \/ Posted("disabled")

\* C29: a comment event carries out the action of at most one command, the
\* first of /apply, /review, /usage, /disable that the lower-cased body
\* holds; a body that holds none leads to no comment and no edit.
C29_OneCommandByPriority ==
    event_name = "issue_comment" =>
        /\ Doing("/apply") => "/apply" \in commands
        /\ Doing("/review") =>
               ("/review" \in commands /\ "/apply" \notin commands)
        /\ Doing("/usage") =>
               ("/usage" \in commands /\ commands \cap {"/apply", "/review"} = {})
        /\ Doing("/disable") => commands = {"/disable"}
        /\ commands = {} => (posted = <<>> /\ applied = {})
        /\ Len(posted) <= 1

\* a body holding all four commands in reverse order was handled as /apply:
\* the issue was edited, the confirmation posted, and nothing else
C29_Witness ==
    /\ Exited
    /\ event_name = "issue_comment"
    /\ comment_body = "all"
    /\ applied # {}
    /\ posted = <<"confirmation">>

\* C30: none of the comments the agent posts (evaluation, apply confirmation,
\* usage table, disable notice) holds a command, so a comment event raised
\* by one of them ends with no comment posted and no issue edit.
C30_OwnCommentsTriggerNothing ==
    (Exited /\ event_name = "issue_comment" /\ comment_body \in BotComments)
        => (commands = {} /\ posted = <<>> /\ applied = {})

\* C31: on /apply the confirmation comment is posted only when
\* update_github_issue applied every edit asked for; after a failed edit no
\* confirmation is posted.
C31_ConfirmationOnlyAfterFullUpdate ==
    (event_name = "issue_comment" /\ Posted("confirmation"))
        => ("apply" \notin failed /\ applied = fields)

\* the event is an /apply comment event whose triggering comment was found
ApplyEvent ==
    /\ event_name = "issue_comment"
    /\ comment_found
    /\ "/apply" \in commands

\* some held comment holds 'AI-enhanced Evaluation' letter for letter
AnyAiCommentExactCase ==
    \E i \in 1..Len(held) : held[i].body \in {"ai", "both"}

\* C32 as stated: on /apply for an issue none of whose held comments holds
\* 'AI-enhanced Evaluation', the handler edits nothing and posts nothing.
C32_Original ==
    (ApplyEvent /\ ~AnyAiCommentExactCase)
        => (posted = <<>> /\ applied = {} /\ m_pc \notin {"update", "confirm"})

\* C32: on /apply for an issue none of whose held comments holds
\* 'AI-enhanced Evaluation' in any letter case, the handler returns without
\* editing the title, body or labels and without posting a comment.
C32_NoEvaluationNoEdit ==
    (ApplyEvent /\ ~AnyAiComment(held))
        => /\ posted = <<>>
           /\ applied = {}
           /\ m_pc \notin {"update", "confirm"}
           /\ exit_code = 0

\* the handler returned from /apply on a PyGithub issue that holds comments,
\* none of them an evaluation, with edits that could have been made
C32_Witness ==
    /\ Exited
    /\ ApplyEvent
    /\ issue_kind = "pygithub"
    /\ Len(held) = MaxHeld
    /\ ~AnyAiComment(held)
    /\ fields = EditFields
    /\ posted = <<>>
    /\ applied = {}

(***************************************************************************)
(* Claims about UserStoryRefactored.from_markdown (checked under SpecStory)*)
(***************************************************************************)
\* the lines of the story markdown
MdLines == SplitLines(md)

IsCriteriaHeader(line) == StartsWith(StoryLine(line), StoryCriteriaKeyLower)

IsBullet(line) == StartsWith(StoryLine(line), <<"-">>)

\* the positions of the criteria headers of the markdown
HeaderAt == {i \in 1..Len(MdLines) : IsCriteriaHeader(MdLines[i])}

\* the number of bullet lines that follow line h without a break
BulletRun(h) ==
    LET stops == {i \in (h + 1)..Len(MdLines) : ~IsBullet(MdLines[i])}
        stop == IF stops = {} THEN Len(MdLines) + 1
                ELSE CHOOSE i \in stops : \A j \in stops : i <= j
    IN  stop - h - 1

\* C21: the acceptance criteria decoded from a story markdown with one
\* criteria header are the bullet lines that follow the header up to the
\* first non-bullet line; no bullet after a non-bullet line (blank, title or
\* description header, other text) is among them.
C21_BulletsEndAtFirstNonBullet ==
    (c_pc = "story_decoded" /\ Cardinality(HeaderAt) = 1) =>
        Len(dec.acceptance_criteria.items) = BulletRun(CHOOSE h \in HeaderAt : TRUE)

(***************************************************************************)
(* Claims about graphql_fetch_issue (checked under SpecFetch)              *)
(***************************************************************************)
\* the response reports the hasNextPage flag
FlagReported == "hasNextPage" \in DOMAIN f_data.page_info

\* C23: the snapshot graphql_fetch_issue returns has fetched_pages = 1 when
\* after is None and 0 otherwise, and had_truncated equal to the hasNextPage
\* flag of the response, false when the response holds no flag.
C23_PagesAndTruncationOfOneFetch ==
    f_pc = "returned" =>
        /\ f_result.snapshot.fetched_pages = (IF f_after = NoCursor THEN 1 ELSE 0)
        /\ FlagReported =>
               f_result.snapshot.had_truncated = f_data.page_info.hasNextPage
        /\ ~FlagReported => ~f_result.snapshot.had_truncated

\* a later page was fetched and the server reported a further page
C23_Witness ==
    /\ f_pc = "returned"
    /\ f_after # NoCursor
    /\ FlagReported
    /\ f_data.page_info.hasNextPage
    /\ f_result.snapshot.fetched_pages = 0
    /\ f_result.snapshot.had_truncated

\* the response holds no repository, or a repository without the issue
NotFound == ~f_data.has_repository \/ ~f_data.has_issue

\* C24: when the response of execute holds no repository, or a repository
\* with no issue, graphql_fetch_issue ends the process: no snapshot is
\* returned and the call is over.
C24_NotFoundExits ==
    (f_pc # "start" /\ NotFound) =>
        (f_pc = "exited" /\ f_result = NoFetchResult)

\* the repository is there, the issue is not, and the process has ended
C24_Witness ==
    /\ f_pc = "exited"
    /\ f_data.has_repository
    /\ ~f_data.has_issue
    /\ f_result = NoFetchResult

(***************************************************************************)
(* Claims about repeated /apply commands (checked under SpecApply)         *)
(***************************************************************************)
SameEdit(a, b) == a.title = b.title /\ a.body = b.body /\ a.labels = b.labels

\* C25: after a first /apply has been handled and has posted its
\* confirmation comment, a second /apply on the same issue decodes and
\* applies the same title, body and labels as the first.
C25_SecondApplyRepeatsTheFirst ==
    (Len(edits) >= 2 /\ edits[1].confirmed) => SameEdit(edits[2], edits[1])

====
